---- MODULE Spec2Model ----
(***************************************************************************)
(* Term resolution pipeline of Legal_Translator (src/pipeline.py) with the  *)
(* local cache index (src/local_cache.py) and the search-term expansion of  *)
(* src/keyword_extractor.py.                                                *)
(*                                                                         *)
(* Korean text is written as a sequence of syllables, each syllable a      *)
(* romanised string: "bo" "heom" is the two-syllable word bo-heom          *)
(* (insurance).  Substring and regex-alternation searches of the source    *)
(* are searches for a contiguous run of syllables.                         *)
(***************************************************************************)
EXTENDS Integers, Sequences, FiniteSets, TLC

(***************************************************************************)
(* Strings                                                                 *)
(***************************************************************************)

\* Python `sub in s` / re.search of a literal: sub occurs in s as a contiguous run.
Contains(s, sub) ==
    \E i \in 0..(Len(s) - Len(sub)) :
        \A j \in 1..Len(sub) : s[i + j] = sub[j]

\* re.search of an alternation (a|b|c) of literals.
SearchAny(s, alts) == \E a \in alts : Contains(s, a)

\* Python `x in list`.
InSeq(x, s) == \E i \in 1..Len(s) : s[i] = x

Range(s) == {s[i] : i \in 1..Len(s)}

Max(a, b) == IF a >= b THEN a ELSE b

Min(a, b) == IF a <= b THEN a ELSE b

\* Faulty variant of Take: the slice keeps the whole list.
Take_All(s, n) == s

\* Python s[:n].
Take(s, n) == SubSeq(s, 1, Min(n, Len(s)))

IsPrefix(s, t) == Len(s) <= Len(t) /\ SubSeq(t, 1, Len(s)) = s

(***************************************************************************)
(* Words used by the expansion tables                                      *)
(***************************************************************************)
W_boheom == <<"bo", "heom">>
W_chingu == <<"chin", "gu">>
W_jiin == <<"ji", "in">>
W_dongryo == <<"dong", "ryo">>
W_jamsu == <<"jam", "su">>
W_yeonrak == <<"yeon", "rak">>
W_dujeol == <<"du", "jeol">>
W_dopi == <<"do", "pi">>
W_yeonrakdujeol == <<"yeon", "rak", "du", "jeol">>
W_yeonrakbulneung == <<"yeon", "rak", "bul", "neung">>
W_haengbangbulmyeong == <<"haeng", "bang", "bul", "myeong">>
W_chayong == <<"cha", "yong">>
W_geumjeondaeyeo == <<"geum", "jeon", "dae", "yeo">>
W_chaemu == <<"chae", "mu">>
W_chaegwon == <<"chae", "gwon">>
W_byeonje == <<"byeon", "je">>
W_geumjeon == <<"geum", "jeon">>
W_don == <<"don">>
W_misu == <<"mi", "su">>
W_chaemubulihaeng == <<"chae", "mu", "bul", "i", "haeng">>
W_gimang == <<"gi", "mang">>
W_sagi == <<"sa", "gi">>
W_hyeongsa == <<"hyeong", "sa">>
W_sonhaebaesang == <<"son", "hae", "bae", "sang">>

(***************************************************************************)
(* keyword_extractor.py: search-term expansion                             *)
(***************************************************************************)

\* SEARCH_SYNONYMS.get(token, ())
SEARCH_SYNONYMS(token) ==
    LET lost == <<W_yeonrakdujeol, W_yeonrakbulneung, W_haengbangbulmyeong, W_dopi>>
        unreachable == <<W_yeonrakdujeol, W_yeonrakbulneung>>
        unpaid == <<W_misu, W_chaegwon, W_chaemubulihaeng>>
    IN  CASE token = W_jamsu -> lost
          [] token = <<"jam", "su", "reul">> -> lost
          [] token = <<"jam", "su", "reul", "tat", "da">> -> lost
          [] token = <<"jam", "su", "reul", "tat", "seup", "ni", "da">> -> lost
          [] token = W_yeonrak -> unreachable
          [] token = <<"yeon", "rak", "i", "an", "doen", "da">> -> unreachable
          [] token = W_chingu -> <<W_jiin, W_dongryo>>
          [] token = <<"a", "neun">> -> <<W_jiin, W_chingu>>
          [] token = <<"hyeong">> -> <<W_jiin, W_chingu>>
          [] token = <<"bil", "ryeo", "jwot", "da">> ->
                <<W_chayong, W_geumjeondaeyeo, W_chaemu>>
          [] token = <<"bil", "ryeo", "jwot", "neun", "de">> ->
                <<W_chayong, W_geumjeondaeyeo, W_chaemu, W_byeonje>>
          [] token = W_don -> <<W_geumjeon, W_chaemu, W_chaegwon, W_byeonje>>
          [] token = <<"mot", "bat", "at", "da">> -> unpaid
          [] token = <<"mot", "bat", "at", "eo", "yo">> -> unpaid
          [] OTHER -> <<>>

\* DOMAIN_EXPAND_RULES: (alternation pattern, additions), in rule order.
DOMAIN_EXPAND_RULES ==
    << [pattern |-> {<<"bil", "ri">>, <<"bil", "ryeo">>, <<"dae", "yeo">>,
                     <<"kkwo">>, W_chayong},
        additions |-> <<W_chayong, W_geumjeondaeyeo, W_chaemu, W_byeonje,
                        W_chaegwon, W_chaemubulihaeng>>],
       [pattern |-> {W_don, W_geumjeon, W_chaemu, W_chaegwon},
        additions |-> <<W_geumjeon, W_chaemu, W_chaegwon, W_byeonje>>],
       [pattern |-> {W_jamsu, W_yeonrak, W_dujeol, W_dopi},
        additions |-> <<W_yeonrakdujeol, W_chaemubulihaeng, W_gimang, W_sagi>>],
       [pattern |-> {W_sagi, W_gimang, <<"sok", "im">>},
        additions |-> <<W_sagi, W_gimang, W_hyeongsa, W_sonhaebaesang>>] >>

RECURSIVE ExpandDomainFrom(_, _)
ExpandDomainFrom(token, r) ==
    IF r > Len(DOMAIN_EXPAND_RULES) THEN <<>>
    ELSE (IF SearchAny(token, DOMAIN_EXPAND_RULES[r].pattern)
            THEN DOMAIN_EXPAND_RULES[r].additions ELSE <<>>)
         \o ExpandDomainFrom(token, r + 1)

\* _expand_domain(token)
ExpandDomain(token) == ExpandDomainFrom(token, 1)

\* The dedup loop of expand_related_terms: keep r unless seen before or equal to token.
RECURSIVE Dedupe(_, _, _)
Dedupe(related, token, deduped) ==
    IF related = <<>> THEN deduped
    ELSE LET r == Head(related)
         IN  Dedupe(Tail(related), token,
                    IF ~InSeq(r, deduped) /\ r # token
                      THEN Append(deduped, r) ELSE deduped)

\* expand_related_terms(token)
ExpandRelatedTerms(token) ==
    Dedupe(SEARCH_SYNONYMS(token) \o ExpandDomain(token), token, <<>>)

(***************************************************************************)
(* local_cache.py: the local cache index                                   *)
(***************************************************************************)

\* A missing field or an empty string (falsy in Python).
NoId == ""

L_boheomgeum == <<"bo", "heom", "geum">>
L_boheomryo == <<"bo", "heom", "ryo">>
L_boheomgyeyak == <<"bo", "heom", "gye", "yak">>

\* Snapshots of data/lstrm.jsonl (legal_terms) and data/lstrm_rlt.jsonl
\* (relations), as load_legal_terms and load_relations return them.  Missing
\* files read as empty lists.
CacheEmpty == [legal_terms |-> <<>>, relations |-> <<>>]

CacheInsurance ==
    [legal_terms |->
        << [id |-> "L1", name |-> L_boheomgeum, note |-> ""],
           [id |-> NoId, name |-> L_boheomgyeyak, note |-> ""],
           [id |-> "L2", name |-> L_boheomryo, note |-> "n2"] >>,
     relations |->
        << [legal_id |-> "L1", daily_id |-> "c1", daily_name |-> "boheomtan don",
            relation_code |-> "r1"],
           [legal_id |-> "L2", daily_id |-> "c1", daily_name |-> "boheomtan don",
            relation_code |-> "r2"],
           [legal_id |-> "L1", daily_id |-> "c9", daily_name |-> "",
            relation_code |-> "r1"],
           [legal_id |-> NoId, daily_id |-> "c8", daily_name |-> "orphan",
            relation_code |-> "r1"],
           [legal_id |-> "L2", daily_id |-> NoId, daily_name |-> "boheom don",
            relation_code |-> "r3"],
           [legal_id |-> "L2", daily_id |-> "d1", daily_name |-> "daily one",
            relation_code |-> "r1"] >>]

\* Default of the max_legal parameter of local_daily_candidates.
MAX_LEGAL_DEFAULT == 50

\* Faulty variant of Matches: every name matches.
Matches_Any(token, name) == token # <<>> /\ name # <<>>

\* _matches(token, name); tokens and names carry no surrounding blanks here.
Matches(token, name) ==
    IF token = <<>> \/ name = <<>> THEN FALSE ELSE Contains(name, token)

\* Python list comprehension [x for x in s if P(x)] for P = the name matches.
RECURSIVE MatchedLegal(_, _)
MatchedLegal(token, legal_terms) ==
    IF legal_terms = <<>> THEN <<>>
    ELSE (IF Matches(token, Head(legal_terms).name)
            THEN <<Head(legal_terms)>> ELSE <<>>)
         \o MatchedLegal(token, Tail(legal_terms))

\* _relations_by_legal()[lid]: the relation rows of one legal id, in file order.
RECURSIVE RelationsByLegal(_, _)
RelationsByLegal(relations, lid) ==
    IF relations = <<>> THEN <<>>
    ELSE (IF Head(relations).legal_id # NoId /\ Head(relations).legal_id = lid
            THEN <<Head(relations)>> ELSE <<>>)
         \o RelationsByLegal(Tail(relations), lid)

\* Index of the entry of daily_map (kept in insertion order) with this key, or 0.
MapIndex(daily_map, key) ==
    IF \E i \in 1..Len(daily_map) : daily_map[i].id = key
      THEN CHOOSE i \in 1..Len(daily_map) : daily_map[i].id = key
      ELSE 0

\* legal_entry of local_daily_candidates.
LegalEntry(lt, rel) ==
    [id |-> lt.id, name |-> lt.name, relation_code |-> rel.relation_code,
     note |-> lt.note]

\* entry.setdefault("legal_terms", []).append(legal_entry)
AddLegalLink(entry, legal_entry) ==
    [entry EXCEPT !.legal_terms = Append(@, legal_entry)]

\* One iteration of `for rel in relations` that is not skipped.
AddRelation(daily_map, token, lt, rel) ==
    LET key == IF rel.daily_id # NoId THEN rel.daily_id ELSE rel.daily_name
        i == MapIndex(daily_map, key)
    IN  IF i = 0
          THEN Append(daily_map,
                      [id |-> key, name |-> rel.daily_name,
                       source |-> "cache:lstrmRlt", keyword |-> token,
                       legal_terms |-> <<LegalEntry(lt, rel)>>])
          ELSE [daily_map EXCEPT ![i] = AddLegalLink(@, LegalEntry(lt, rel))]

\* The inner loop `for rel in relations`, with its break on max_daily.
RECURSIVE WalkRelations(_, _, _, _, _)
WalkRelations(daily_map, token, lt, rels, max_daily) ==
    IF rels = <<>> THEN daily_map
    ELSE IF Head(rels).daily_name = "" 
           THEN WalkRelations(daily_map, token, lt, Tail(rels), max_daily)
    ELSE LET m == AddRelation(daily_map, token, lt, Head(rels))
         IN  IF Len(m) >= max_daily THEN m
             ELSE WalkRelations(m, token, lt, Tail(rels), max_daily)

\* The outer loop `for lt in matched_legal`, with its break on max_daily.
RECURSIVE WalkLegal(_, _, _, _, _)
WalkLegal(daily_map, token, matched, relations, max_daily) ==
    IF matched = <<>> THEN daily_map
    ELSE IF Head(matched).id = NoId
           THEN WalkLegal(daily_map, token, Tail(matched), relations, max_daily)
    ELSE LET m == WalkRelations(daily_map, token, Head(matched),
                                RelationsByLegal(relations, Head(matched).id),
                                max_daily)
         IN  IF Len(m) >= max_daily THEN m
             ELSE WalkLegal(m, token, Tail(matched), relations, max_daily)

\* local_daily_candidates(token, max_daily, max_legal)
LocalDailyCandidates(snapshot, token, max_daily, max_legal) ==
    IF token = <<>> THEN <<>>
    ELSE WalkLegal(<<>>, token,
                   Take(MatchedLegal(token, snapshot.legal_terms), max_legal),
                   snapshot.relations, max_daily)

(***************************************************************************)
(* pipeline.py: _pick_summary                                              *)
(*                                                                         *)
(* An article content is a sequence of characters; "nl" is the newline,    *)
(* "tab" the tabulator, "fs" the full-width full stop and "ell" the         *)
(* one-character ellipsis.                                                 *)
(***************************************************************************)

\* Default of the limit parameter of _pick_summary.
SUMMARY_LIMIT == 160

\* collect_relations(..., flush_every=200)
FLUSH_EVERY_DEFAULT == 200

Whitespace == {" ", "tab", "nl"}

\* text.replace("\n", " ")
ReplaceNewlines(text) == [i \in 1..Len(text) |-> IF text[i] = "nl" THEN " " ELSE text[i]]

\* str.strip()
Strip(text) ==
    LET keep == {i \in 1..Len(text) : text[i] \notin Whitespace}
    IN  IF keep = {} THEN <<>>
        ELSE SubSeq(text, CHOOSE i \in keep : \A j \in keep : i <= j,
                          CHOOSE i \in keep : \A j \in keep : i >= j)

\* The sentence delimiters, in the order the loop tries them.
SPLIT_CHARS == << <<".", " ">>, <<"fs">>, <<"ell">>, <<"!">>, <<"?">> >>

\* cleaned.split(d)[0]: the part before the leftmost occurrence of d.
SplitHead(cleaned, d) ==
    LET at == {i \in 0..(Len(cleaned) - Len(d)) :
                  \A j \in 1..Len(d) : cleaned[i + j] = d[j]}
    IN  IF at = {} THEN cleaned
        ELSE SubSeq(cleaned, 1, CHOOSE i \in at : \A k \in at : i <= k)

\* The loop over split_char: the first delimiter of the tuple found in cleaned
\* cuts it, and the loop stops.
RECURSIVE SplitFirst(_, _)
SplitFirst(cleaned, k) ==
    IF k > Len(SPLIT_CHARS) THEN cleaned
    ELSE IF Contains(cleaned, SPLIT_CHARS[k]) THEN SplitHead(cleaned, SPLIT_CHARS[k])
    ELSE SplitFirst(cleaned, k + 1)

\* The length cut of _pick_summary.
Truncate(cleaned, limit) ==
    IF Len(cleaned) > limit
      THEN Append(SubSeq(cleaned, 1, limit - 1), "ell")
      ELSE cleaned

\* _pick_summary(contents, limit)
RECURSIVE PickSummary(_, _)
PickSummary(contents, limit) ==
    IF contents = <<>> THEN <<>>
    ELSE LET cleaned == Strip(ReplaceNewlines(Head(contents)))
         IN  IF cleaned = <<>> THEN PickSummary(Tail(contents), limit)
             ELSE Truncate(SplitFirst(cleaned, 1), limit)

(***************************************************************************)
(* keyword_extractor.py: extract_keywords                                  *)
(*                                                                         *)
(* A text is a sequence of characters: Hangul syllables (romanised), the   *)
(* Latin letters and digits of Alnum, and the characters of Separators.    *)
(***************************************************************************)

\* DEFAULT_STOPWORDS
DEFAULT_STOPWORDS ==
  {
    <<"geu", "ri", "go">>, <<"geu", "reo", "na">>, <<"ha", "ji", "man">>,
    <<"geu", "rae", "seo">>, <<"geu", "reo", "myeon">>,
    <<"geu", "reon", "de">>, <<"ha", "da">>, <<"doe", "da">>, <<"i", "da">>,
    <<"it", "da">>, <<"eops", "da">>, <<"anh", "da">>, <<"al", "da">>,
    <<"gat", "da">>, <<"gat", "eun">>, <<"geo">>, <<"geot">>,
    <<"jeong", "do">>, <<"bu", "bun">>, <<"ttae", "mun">>,
    <<"gwan", "ryeon">>, <<"dae", "han">>, <<"i", "beon">>,
    <<"i", "beon", "e">>, <<"u", "ri">>, <<"jeo", "hui">>, <<"je", "ga">>,
    <<"na", "neun">>, <<"neo", "mu">>, <<"mae", "u">>, <<"jeong", "mal">>,
    <<"eo", "tteoh", "ge">>, <<"eo", "di">>, <<"eon", "je">>, <<"wae">>,
    <<"mu", "eos">>, <<"mwo">>, <<"myeot">>, <<"nu", "ga">>, <<"nu", "gu">>,
    <<"eo", "neu">>, <<"hae", "ya">>, <<"hae", "ya", "man">>,
    <<"hae", "ya", "ji">>, <<"hae", "ya", "ha", "na">>,
    <<"hae", "ya", "doe", "na">>, <<"hae", "ya", "doe", "na", "yo">>,
    <<"ha", "na", "yo">>, <<"ha", "nya">>, <<"ha", "ni">>, <<"ha", "ne">>,
    <<"haet", "na", "yo">>, <<"haet", "neun", "de">>,
    <<"haet", "seup", "ni", "kka">>, <<"doep", "ni", "kka">>,
    <<"doe", "na", "yo">>
  }

\* TRAILING_PARTICLES: the alternatives of the pattern (a|b|...)$.
TRAILING_PARTICLES ==
  {
    <<"ip", "ni", "da">>, <<"hap", "ni", "da">>, <<"haet", "da">>,
    <<"haet", "eum">>, <<"haet", "eo", "yo">>, <<"haet", "neun", "de">>,
    <<"haet", "ji", "man">>, <<"ha", "go">>, <<"ha", "myeo">>, <<"i", "da">>,
    <<"yeot", "da">>, <<"ha", "na", "yo">>, <<"ha", "nya">>, <<"ha", "ni">>,
    <<"ha", "ne">>, <<"doe", "na", "yo">>, <<"doep", "ni", "kka">>
  }

\* SINGLE_PARTICLE: the characters of the class [...]$.
SINGLE_PARTICLE ==
  {
    "i", "ga", "eun", "neun", "eul", "reul", "ui", "e", "wa", "gwa", "do",
    "man", "kka", "ji", "jo", "cha", "bu", "teo"
  }

\* SYNONYM_SEEDS.get(key, ())
SYNONYM_SEEDS(key) ==
    CASE key = <<"bo", "heom">> ->
            <<
              <<"bo", "heom", "geum">>, <<"bo", "heom", "ryo">>,
              <<"bo", "heom", "gye", "yak">>, <<"gong", "je">>,
              <<"son", "hae", "bo", "heom">>,
              <<"ja", "dong", "cha", "bo", "heom">>
            >>
      [] key = <<"sa", "go">> ->
            <<
              <<"son", "hae">>, <<"bae", "sang">>, <<"chaek", "im">>,
              <<"gwa", "sil">>
            >>
      [] key = <<"im", "dae">> ->
            <<
              <<"im", "dae", "cha">>, <<"wol", "se">>, <<"jeon", "se">>,
              <<"bo", "jeung", "geum">>
            >>
      [] key = <<"jeon", "se">> ->
            <<
              <<"bo", "jeung", "geum">>, <<"im", "cha", "in">>,
              <<"im", "dae", "in">>
            >>
      [] key = <<"gye", "yak">> ->
            <<
              <<"gye", "yak", "hae", "ji">>, <<"hae", "ji">>,
              <<"wi", "yak", "geum">>
            >>
      [] key = <<"im", "geum">> ->
            <<
              <<"geup", "yeo">>, <<"wol", "geup">>, <<"che", "bul">>
            >>
      [] key = <<"hae", "go">> ->
            <<
              <<"bu", "dang", "hae", "go">>, <<"jeong", "jik">>,
              <<"jing", "gye">>
            >>
      [] key = <<"dae", "yeo">> ->
            <<
              <<"cha", "yong">>, <<"geum", "jeon", "dae", "yeo">>,
              <<"chae", "mu">>, <<"chae", "gwon">>, <<"byeon", "je">>
            >>
      [] key = <<"bil", "ri", "da">> ->
            <<
              <<"cha", "yong">>, <<"geum", "jeon", "dae", "yeo">>,
              <<"chae", "mu">>, <<"chae", "gwon">>, <<"byeon", "je">>,
              <<"chae", "mu", "bul", "i", "haeng">>
            >>
      [] key = <<"don">> ->
            <<
              <<"geum", "jeon">>, <<"chae", "mu">>, <<"chae", "gwon">>,
              <<"byeon", "je">>
            >>
      [] key = <<"jam", "su">> ->
            <<
              <<"yeon", "rak", "du", "jeol">>,
              <<"chae", "mu", "bul", "i", "haeng">>, <<"gi", "mang">>,
              <<"sa", "gi">>
            >>
      [] OTHER -> <<>>

\* VERB_BASE_RULES: (alternatives, anchored at the end of the token, base form).
VERB_BASE_RULES ==
    << [pattern |->
          {
            <<"bil", "ryeo", "jwot">>, <<"bil", "ryeo", "ju", "eot">>,
            <<"bil", "ryeo", "ju", "eot", "seup">>,
            <<"bil", "ryeo", "jwot", "seup">>
          },
        at_end |-> FALSE, base |-> <<"bil", "ryeo", "ju", "da">>],
       [pattern |->
          {
            <<"bil", "ryeot">>, <<"bil", "ryeo">>, <<"bil", "ri", "eot">>,
            <<"bil", "ri", "eot", "seup">>, <<"bil", "ryeot", "seup">>
          },
        at_end |-> FALSE, base |-> <<"bil", "ri", "da">>],
       [pattern |->
          {
            <<"ta", "yeot">>, <<"tat">>, <<"tat", "da">>, <<"tat", "seup">>,
            <<"ta", "get">>
          },
        at_end |-> FALSE, base |-> <<"ta", "da">>],
       [pattern |->
          {
            <<"haet">>, <<"ha", "yeot">>, <<"hap", "ni", "da">>,
            <<"haet", "seup">>, <<"hae", "yo">>
          },
        at_end |-> TRUE, base |-> <<"ha", "da">>] >>

\* ENDINGS_TO_STRIP, in tuple order.
ENDINGS_TO_STRIP ==
  <<
    <<"yeot", "seup", "ni", "da">>, <<"yeot", "seup", "ni", "da", "man">>,
    <<"yeot", "seup", "ni", "da", "man">>, <<"i", "eot", "eo", "yo">>,
    <<"i", "eot", "neun", "de">>, <<"i", "eot", "seup", "ni", "da">>,
    <<"i", "eot", "seup", "ni", "da", "man">>, <<"i", "eot", "seup">>,
    <<"ip", "ni", "da">>, <<"ip", "ni", "kka">>, <<"ip", "ni", "da", "man">>,
    <<"yeot", "eo", "yo">>, <<"haet", "eo", "yo">>, <<"haet", "neun", "de">>,
    <<"haet", "ji", "man">>, <<"haet", "eu", "ni">>,
    <<"haet", "eu", "myeo">>, <<"haet", "eu", "na">>,
    <<"haet", "eu", "myeon">>, <<"haet", "seup", "ni", "da">>,
    <<"haet", "seup", "ni", "kka">>, <<"haet", "seup">>,
    <<"seup", "ni", "da">>, <<"seup", "ni", "kka">>,
    <<"seup", "ni", "da", "man">>, <<"neun", "de">>, <<"ra", "seo">>,
    <<"i", "ra", "seo">>, <<"i", "ra", "myeon">>, <<"i", "myeon">>,
    <<"i", "myeon", "yo">>, <<"ne", "yo">>, <<"e", "yo">>, <<"ye", "yo">>,
    <<"eo", "yo">>, <<"a", "seo">>, <<"eo", "seo">>, <<"eot", "eo", "yo">>,
    <<"yeot", "eo", "yo">>, <<"yeot", "neun", "de">>, <<"get", "eo", "yo">>,
    <<"get", "ne", "yo">>, <<"get", "neun", "de">>, <<"get", "seup">>
  >>

\* The characters of [A-Za-z0-9] that texts use here.
Alnum == {"A", "Z", "7"}

\* The characters that are neither Hangul syllables nor of Alnum.
Separators == Whitespace \cup {".", ",", "!", "?"}

\* Which alternative of [Hangul]{2,}|[A-Za-z0-9]{2,} a character can be part of.
CharClass(c) ==
    IF c \in Alnum THEN "alnum" ELSE IF c \in Separators THEN "none" ELSE "hangul"

\* The end of the longest run of characters of the class of text[i] from i on.
RunEnd(text, i) ==
    LET ends == {j \in i..Len(text) :
                    \A k \in i..j : CharClass(text[k]) = CharClass(text[i])}
    IN  CHOOSE j \in ends : \A k \in ends : k <= j

\* re.findall from position i on: runs of two or more characters of one class.
RECURSIVE SimpleTokensFrom(_, _)
SimpleTokensFrom(text, i) ==
    IF i > Len(text) THEN <<>>
    ELSE LET j == RunEnd(text, i)
         IN  (IF CharClass(text[i]) # "none" /\ j - i + 1 >= 2
                THEN <<SubSeq(text, i, j)>> ELSE <<>>)
             \o SimpleTokensFrom(text, j + 1)

\* _simple_tokens(text)
SimpleTokens(text) == SimpleTokensFrom(text, 1)

\* The tag prefixes _tokenize drops from the answer of Okt.
OKT_DROPPED_TAGS == {"J", "E", "X", "S", "F"}

\* The loop of _tokenize over okt.pos(text, norm=True, stem=True): pairs of a
\* word and the first letter of its tag.
RECURSIVE OktTokens(_)
OktTokens(pos) ==
    IF pos = <<>> THEN <<>>
    ELSE (IF Head(pos).tag \in OKT_DROPPED_TAGS \/ Len(Head(pos).word) < 2
            THEN <<>> ELSE <<Head(pos).word>>)
         \o OktTokens(Tail(pos))

\* No Okt is installed (konlpy failed to import).
NoOkt == << [word |-> <<>>, tag |-> "no okt"] >>

\* _tokenize(text): okt is NoOkt, or what okt.pos answers for the text.
Tokenize(text, okt) == IF okt = NoOkt THEN SimpleTokens(text) ELSE OktTokens(okt)

\* str.endswith
EndsWith(token, suffix) ==
    Len(suffix) <= Len(token)
        /\ SubSeq(token, Len(token) - Len(suffix) + 1, Len(token)) = suffix

\* Faulty variant of DropLast: nothing is cut off.
DropLast_Nothing(token, n) == token

\* token[:-len(suffix)]
DropLast(token, n) == SubSeq(token, 1, Len(token) - n)

\* re.sub of (a|b|...)$ by "": the leftmost match is the longest alternative
\* that ends the token.
SubTrailing(token, alts) ==
    LET found == {a \in alts : EndsWith(token, a)}
    IN  IF found = {} THEN token
        ELSE DropLast(token, Len(CHOOSE a \in found :
                                     \A b \in found : Len(b) <= Len(a)))

\* re.sub of [...]$ by "".
SubSingle(token, chars) ==
    IF token # <<>> /\ token[Len(token)] \in chars THEN DropLast(token, 1) ELSE token

\* _normalize_token(token)
NormalizeToken(token) ==
    SubSingle(SubTrailing(Strip(token), TRAILING_PARTICLES), SINGLE_PARTICLE)

\* The loop over ENDINGS_TO_STRIP from index k on: the ending that is stripped
\* (the first that ends the token and leaves two characters or more), or <<>>.
RECURSIVE StrippedEnding(_, _)
StrippedEnding(token, k) ==
    IF k > Len(ENDINGS_TO_STRIP) THEN <<>>
    ELSE IF EndsWith(token, ENDINGS_TO_STRIP[k])
            /\ Len(token) - Len(ENDINGS_TO_STRIP[k]) >= 2
           THEN ENDINGS_TO_STRIP[k]
    ELSE StrippedEnding(token, k + 1)

\* The token _derive_meaning_units goes on with after the loop over the endings.
Stem(token) == DropLast(token, Len(StrippedEnding(token, 1)))

\* pattern.search(token) for a rule of VERB_BASE_RULES.
RuleMatches(rule, token) ==
    IF rule.at_end THEN \E a \in rule.pattern : EndsWith(token, a)
    ELSE SearchAny(token, rule.pattern)

\* Faulty variant of BaseForms: no base form is recovered.
BaseForms_None(token, r, units) == units

\* The loop over VERB_BASE_RULES from rule r on.
RECURSIVE BaseForms(_, _, _)
BaseForms(token, r, units) ==
    IF r > Len(VERB_BASE_RULES) THEN units
    ELSE BaseForms(token, r + 1,
                   IF RuleMatches(VERB_BASE_RULES[r], token)
                        /\ ~InSeq(VERB_BASE_RULES[r].base, units)
                     THEN Append(units, VERB_BASE_RULES[r].base) ELSE units)

\* [u for u in units if len(u) >= 2]
RECURSIVE LongUnits(_)
LongUnits(units) ==
    IF units = <<>> THEN <<>>
    ELSE (IF Len(Head(units)) >= 2 THEN <<Head(units)>> ELSE <<>>)
         \o LongUnits(Tail(units))

W_hada == <<"ha", "da">>

\* _derive_meaning_units(token)
DeriveMeaningUnits(token) ==
    LET stem == Stem(token)
        stripped == IF StrippedEnding(token, 1) # <<>> THEN <<stem>> ELSE <<>>
        based == BaseForms(stem, 1, stripped)
        units == IF EndsWith(stem, <<"ha">>) /\ ~InSeq(W_hada, based)
                   THEN Append(based, W_hada) ELSE based
    IN  LongUnits(units)

\* for piece in [...]: if piece not in tokens: tokens.append(piece)
RECURSIVE AppendNew(_, _)
AppendNew(tokens, pieces) ==
    IF pieces = <<>> THEN tokens
    ELSE AppendNew(IF InSeq(Head(pieces), tokens) THEN tokens
                   ELSE Append(tokens, Head(pieces)),
                   Tail(pieces))

\* The loop of extract_keywords over raw_tokens.
RECURSIVE CandidateTokens(_, _, _)
CandidateTokens(raw_tokens, stopwords, tokens) ==
    IF raw_tokens = <<>> THEN tokens
    ELSE LET norm == NormalizeToken(Head(raw_tokens))
         IN  CandidateTokens(Tail(raw_tokens), stopwords,
                             IF Len(norm) < 2 \/ norm \in stopwords THEN tokens
                             ELSE AppendNew(tokens,
                                            <<norm>> \o DeriveMeaningUnits(norm)))

\* Counter(tokens)[word]
Count(tokens, word) == Cardinality({i \in 1..Len(tokens) : tokens[i] = word})

\* [x for x in tokens if x != word]
RECURSIVE Without(_, _)
Without(tokens, word) ==
    IF tokens = <<>> THEN <<>>
    ELSE (IF Head(tokens) = word THEN <<>> ELSE <<Head(tokens)>>)
         \o Without(Tail(tokens), word)

\* The words of Counter(tokens).most_common(): by falling count, words of equal
\* count in the order of their first occurrence.
RECURSIVE MostCommon(_)
MostCommon(tokens) ==
    IF tokens = <<>> THEN <<>>
    ELSE LET best == CHOOSE i \in 1..Len(tokens) :
                        /\ \A j \in 1..Len(tokens) :
                              Count(tokens, tokens[j]) <= Count(tokens, tokens[i])
                        /\ \A j \in 1..(i - 1) :
                              Count(tokens, tokens[j]) < Count(tokens, tokens[i])
         IN  <<tokens[best]>> \o MostCommon(Without(tokens, tokens[best]))

\* The loop over counts.most_common(): append, then break at top_k keywords.
RECURSIVE TopKeywords(_, _, _)
TopKeywords(words, top_k, keywords) ==
    IF words = <<>> THEN keywords
    ELSE IF InSeq(Head(words), keywords) THEN TopKeywords(Tail(words), top_k, keywords)
    ELSE LET more == Append(keywords, Head(words))
         IN  IF Len(more) >= top_k THEN more
             ELSE TopKeywords(Tail(words), top_k, more)

\* Faulty variant of AppendAllowed: entries that are keywords already are
\* appended again.
RECURSIVE AppendAllowed_NoDedupe(_, _, _)
AppendAllowed_NoDedupe(keywords, entries, stopwords) ==
    IF entries = <<>> THEN keywords
    ELSE IF Head(entries) \notin stopwords
         THEN AppendAllowed_NoDedupe(Append(keywords, Head(entries)), Tail(entries),
                                     stopwords)
         ELSE AppendAllowed_NoDedupe(keywords, Tail(entries), stopwords)

\* An inner loop of the expansion: append the entries that are neither
\* stopwords nor keywords yet.
RECURSIVE AppendAllowed(_, _, _)
AppendAllowed(keywords, entries, stopwords) ==
    IF entries = <<>> THEN keywords
    ELSE IF Head(entries) \notin stopwords /\ ~InSeq(Head(entries), keywords)
         THEN AppendAllowed(Append(keywords, Head(entries)), Tail(entries), stopwords)
         ELSE AppendAllowed(keywords, Tail(entries), stopwords)

\* for key in base_list: the entries the two inner loops go through, the
\* synonym seeds of the key and then its domain additions.
RECURSIVE ExpansionEntries(_)
ExpansionEntries(base_list) ==
    IF base_list = <<>> THEN <<>>
    ELSE SYNONYM_SEEDS(Head(base_list)) \o ExpandDomain(Head(base_list))
         \o ExpansionEntries(Tail(base_list))

\* Faulty variant of ExpandKeywords: the expansion entries are put in front of
\* the base keywords.
ExpandKeywords_InFront(keywords, stopwords) ==
    AppendAllowed(<<>>, ExpansionEntries(keywords), stopwords) \o keywords

\* The expansion of extract_keywords: base_list = list(keywords), then the loops.
ExpandKeywords(keywords, stopwords) ==
    AppendAllowed(keywords, ExpansionEntries(keywords), stopwords)

\* extract_keywords(text, top_k, extra_stopwords, expand_synonyms), with okt
\* for the tokenizer in use.
ExtractKeywords(text, top_k, extra_stopwords, expand_synonyms, okt) ==
    IF text = <<>> THEN <<>>
    ELSE LET stopwords == DEFAULT_STOPWORDS \cup extra_stopwords
             tokens == CandidateTokens(Tokenize(text, okt), stopwords, <<>>)
             keywords == TopKeywords(MostCommon(tokens), top_k, <<>>)
         IN  IF expand_synonyms THEN ExpandKeywords(keywords, stopwords)
             ELSE keywords

(***************************************************************************)
(* law_api.py: the remote terminology service, as the pipeline sees it     *)
(***************************************************************************)

\* The floor of the page size run_pipeline asks for: max(20, daily_per_keyword).
PER_PAGE_FLOOR == 20

\* SEARCH_BUDGET_SEC, in seconds.
SEARCH_BUDGET_SEC == 6

\* n search hits whose ids cycle over d1, d2 and a record without id.
Hits(n) ==
    [i \in 1..n |->
        [id |-> CASE i % 3 = 1 -> "d1" [] i % 3 = 2 -> "d2" [] OTHER -> NoId,
         name |-> "hit", source |-> "dict"]]

\* Hit lists of one full page, of one item more, and of several pages.
FullPageHits == Hits(PER_PAGE_FLOOR)
PagePlusOneHits == Hits(PER_PAGE_FLOOR + 1)
ManyPagesHits == Hits(4 * PER_PAGE_FLOOR + 5)

\* What the service holds for a query: the hit list that the pages cut up, and
\* the count it reports (0: the response carries no count field).
SearchResults(snapshot, term) ==
    CASE snapshot = "small" /\ term = W_boheom ->
            [total_count |-> 2,
             hits |-> << [id |-> "d1", name |-> "daily one", source |-> "dict"],
                         [id |-> "d2", name |-> "daily two", source |-> "dict"] >>]
      [] snapshot = "small" /\ term = W_chingu ->
            [total_count |-> 0,
             hits |-> << [id |-> "d2", name |-> "daily two", source |-> "dict"],
                         [id |-> NoId, name |-> "nameless", source |-> "dict"],
                         [id |-> "d2", name |-> "daily two", source |-> "dict"],
                         [id |-> "d3", name |-> "daily three", source |-> "dict"] >>]
      [] snapshot = "small" /\ term = W_jiin ->
            [total_count |-> 0,
             hits |-> << [id |-> "d3", name |-> "daily three", source |-> "dict"],
                         [id |-> "d1", name |-> "daily one", source |-> "dict"] >>]
      [] snapshot = "large" /\ term = W_boheom ->
            [total_count |-> PER_PAGE_FLOOR, hits |-> FullPageHits]
      [] snapshot = "large" /\ term = W_chingu ->
            [total_count |-> 0, hits |-> ManyPagesHits]
      [] snapshot = "large" /\ term = W_jiin ->
            [total_count |-> 0, hits |-> PagePlusOneHits]
      [] OTHER -> [total_count |-> 0, hits |-> <<>>]

\* fetch_daily_terms(keyword, page, num_rows) when the request succeeds.
FetchDailyTerms(snapshot, keyword, pg, num_rows) ==
    LET r == SearchResults(snapshot, keyword)
    IN  [total_count |-> r.total_count,
         items |-> SubSeq(r.hits, (pg - 1) * num_rows + 1,
                          Min(pg * num_rows, Len(r.hits)))]

\* fetch_daily_to_legal(daily_term_id)["legal_terms"] when the request succeeds.
FetchDailyToLegal(daily_term_id) ==
    CASE daily_term_id = "d1" ->
            << [id |-> "l1", name |-> "legal one", relation_code |-> "r1", note |-> ""],
               [id |-> "l2", name |-> "legal two", relation_code |-> "r2", note |-> ""],
               [id |-> NoId, name |-> "legal none", relation_code |-> "r1", note |-> ""] >>
      [] daily_term_id = "d2" ->
            << [id |-> NoId, name |-> "legal none", relation_code |-> "r1", note |-> ""],
               [id |-> "l2", name |-> "legal two", relation_code |-> "r1", note |-> ""] >>
      [] OTHER -> <<>>

\* fetch_legal_to_article(legal_term_id) when the request succeeds.
FetchLegalToArticle(legal_term_id) ==
    CASE legal_term_id = "l1" ->
            [legal_term_name |-> "legal one (law)",
             articles |-> << [law_id |-> "law1", content |-> <<" ">>],
                             [law_id |-> "law2",
                              content |-> <<"A", "nl", "b", ".", " ", "C">>] >>]
      [] OTHER -> [legal_term_name |-> "", articles |-> <<>>]

\* How long a search request may take, in seconds.
Delays == {0, SEARCH_BUDGET_SEC, SEARCH_BUDGET_SEC + 1}

(***************************************************************************)
(* pipeline.py: run_pipeline as a state machine                            *)
(***************************************************************************)

\* Bounds of the explored inputs and of the environment.
MaxPagesBound == 2
MaxPerDaily == 2
MaxFaults == 2

\* Default of the top_k parameter of run_pipeline.
TOP_K_DEFAULT == 8

\* The input texts of the runs explored.
T_empty == <<>>
T_chingu_boheom == <<"chin", "gu", " ", "bo", "heom">>
T_boheom == <<"bo", "heom">>

\* The runs explored: the text, the daily_per_keyword argument, what the cache
\* files hold and what the remote service holds.
Scenarios ==
    { [text |-> T_empty, daily_per_keyword |-> 1,
       cache |-> CacheEmpty, remote |-> "small"],
      [text |-> T_boheom, daily_per_keyword |-> 1,
       cache |-> CacheInsurance, remote |-> "small"],
      [text |-> T_chingu_boheom, daily_per_keyword |-> 1,
       cache |-> CacheInsurance, remote |-> "small"],
      [text |-> T_chingu_boheom, daily_per_keyword |-> 2,
       cache |-> CacheInsurance, remote |-> "small"],
      [text |-> T_chingu_boheom, daily_per_keyword |-> 2,
       cache |-> CacheEmpty, remote |-> "large"] }

VARIABLES
    text,               \* argument of run_pipeline
    top_k,              \* argument of run_pipeline
    tokens,             \* extract_keywords(text, top_k, expand_synonyms=False)
    cache,              \* the snapshot the local cache files hold
    remote,             \* the snapshot the remote service answers from
    MAX_DAILY_PAGES,    \* LAWGO_MAX_PAGES
    daily_per_keyword,  \* argument of run_pipeline
    legal_per_daily,    \* argument of run_pipeline
    pc,                 \* where run_pipeline stands
    warnings,
    keyword_bundles,
    ki,                 \* index of tok in tokens
    daily_candidates,
    seen_daily_ids,
    search_terms,
    ti,                 \* index of term in search_terms
    items,              \* items of _fetch_all_daily, then daily_items
    page,
    total_count,        \* 0 stands for None
    start,
    ii,                 \* index of daily_item in daily_items
    mapped,             \* mapped["legal_terms"][:legal_per_daily]
    li,                 \* index of legal in mapped
    legal_candidates,
    result,             \* the returned bundle
    now,                \* time.monotonic()
    kw_start,           \* history: now when the keyword's search loop began
    faults,             \* history: failed or slow requests so far
    trace,              \* history: the remote requests and timeouts, in order
    call,               \* a call of a function of the library, with its arguments
    ret,                \* what the call returned
    earlier,            \* the bundle an earlier call of run_pipeline returned
    down,               \* the requests the remote service answers with an error
    rlt_file,           \* the rows lstrm_rlt.jsonl holds
    writer,             \* the rows written to the open file and not yet in it
    written,
    processed_ids,
    flush_every,        \* --flush-every
    mi,                 \* index of mst in the ids of legal_terms
    rlt_items,          \* items of collect_relations
    ri,                 \* index of item in items
    cpc,                \* where the relations command stands
    interrupts,         \* history: the runs of the command that were interrupted
    answered            \* history: the ids whose relations were fetched

inputs == <<text, top_k, cache, remote, MAX_DAILY_PAGES, daily_per_keyword,
            legal_per_daily>>
collector == <<rlt_file, writer, written, processed_ids, flush_every, mi, rlt_items, ri,
               cpc, interrupts, answered>>
harness == <<call, ret, earlier, down, collector>>
config == <<inputs, tokens, harness>>
keyword_state == <<ki, daily_candidates, seen_daily_ids, search_terms, ti>>
paging_state == <<items, page, total_count, start>>
fanout_state == <<ii, mapped, li, legal_candidates>>
vars == <<config, pc, warnings, keyword_bundles, keyword_state, paging_state,
          fanout_state, result, now, kw_start, faults, trace>>

NoResult == [tokens |-> <<>>, keywords |-> <<>>, warnings |-> <<>>]

\* The call under way is one of run_pipeline; its arguments are the inputs.
RunCall == [fn |-> "run_pipeline"]
NoReturn == [returned |-> FALSE]

\* No call of run_pipeline has returned yet.
NoEarlier == [called |-> FALSE]

\* The locals of run_pipeline and the history, before the first step.
InitRun ==
    /\ tokens = <<>>
    /\ warnings = <<>>
    /\ keyword_bundles = <<>>
    /\ ki = 1
    /\ daily_candidates = <<>>
    /\ seen_daily_ids = {}
    /\ search_terms = <<>>
    /\ ti = 1
    /\ items = <<>>
    /\ page = 1
    /\ total_count = 0
    /\ start = 0
    /\ ii = 1
    /\ mapped = <<>>
    /\ li = 1
    /\ legal_candidates = <<>>
    /\ result = NoResult
    /\ now = 0
    /\ kw_start = 0
    /\ faults = 0
    /\ trace = <<>>

\* The relations command is not running.
NoCollector ==
    /\ rlt_file = <<>>
    /\ writer = <<>>
    /\ written = 0
    /\ processed_ids = {}
    /\ flush_every = FLUSH_EVERY_DEFAULT
    /\ mi = 1
    /\ rlt_items = <<>>
    /\ ri = 1
    /\ cpc = "idle"
    /\ interrupts = 0
    /\ answered = {}

Init ==
    /\ NoCollector
    /\ \E s \in Scenarios :
          /\ text = s.text
          /\ daily_per_keyword = s.daily_per_keyword
          /\ cache = s.cache
          /\ remote = s.remote
    /\ top_k = TOP_K_DEFAULT
    /\ MAX_DAILY_PAGES \in 1..MaxPagesBound
    /\ legal_per_daily \in 1..MaxPerDaily
    /\ pc = "extract"
    /\ InitRun
    /\ call = RunCall
    /\ ret = NoReturn
    /\ earlier = NoEarlier
    /\ down = {}

tok == tokens[ki]
term == search_terms[ti]
per_page == Max(PER_PAGE_FLOOR, daily_per_keyword)

\* Faulty variant of Warn: the new warning is put in front of the list.
Warn_Prepend(ws, kind, about) == <<[kind |-> kind, about |-> about]>> \o ws

\* warnings.append(...)
Warn(ws, kind, about) == Append(ws, [kind |-> kind, about |-> about])

\* The loop over local_daily: keep the items with an id not seen before.
RECURSIVE KeepLocal(_, _)
KeepLocal(local_daily, kept) ==
    IF local_daily = <<>> THEN kept
    ELSE LET item == Head(local_daily)
         IN  KeepLocal(Tail(local_daily),
                       IF item.id # NoId /\ ~(\E k \in 1..Len(kept) : kept[k].id = item.id)
                         THEN Append(kept, item) ELSE kept)

\* Faulty variant of Extract: the text is taken as one keyword, unprocessed.
Extract_WholeText ==
    /\ pc = "extract"
    /\ tokens' = <<text>>
    /\ pc' = "keyword"
    /\ UNCHANGED <<inputs, harness, warnings, keyword_bundles, keyword_state,
                   paging_state, fanout_state, result, now, kw_start, faults, trace>>

\* tokens = extract_keywords(text, top_k=top_k, expand_synonyms=False); the
\* regex tokenizer is the one in use.
Extract ==
    /\ pc = "extract"
    /\ tokens' = ExtractKeywords(text, top_k, {}, FALSE, NoOkt)
    /\ pc' = "keyword"
    /\ UNCHANGED <<inputs, harness, warnings, keyword_bundles, keyword_state,
                   paging_state, fanout_state, result, now, kw_start, faults, trace>>

\* for tok in tokens: the cache lookup and the search-term list of one keyword.
StartKeyword ==
    /\ pc = "keyword"
    /\ ki <= Len(tokens)
    /\ LET local_daily == LocalDailyCandidates(cache, tok, daily_per_keyword * 2,
                                               MAX_LEGAL_DEFAULT)
           kept == KeepLocal(local_daily, <<>>)
       IN  /\ daily_candidates' = kept
           /\ seen_daily_ids' = {kept[k].id : k \in 1..Len(kept)}
    /\ search_terms' = <<tok>> \o ExpandRelatedTerms(tok)
    /\ ti' = 1
    /\ kw_start' = now
    /\ pc' = "term"
    /\ UNCHANGED <<config, warnings, keyword_bundles, ki, paging_state, fanout_state,
                   result, now, faults, trace>>

\* The loop over tokens is over: the bundle is returned.
Return ==
    /\ pc = "keyword"
    /\ ki > Len(tokens)
    /\ result' = [tokens |-> keyword_bundles, keywords |-> tokens, warnings |-> warnings]
    /\ pc' = "done"
    /\ UNCHANGED <<config, warnings, keyword_bundles, keyword_state, paging_state,
                   fanout_state, now, kw_start, faults, trace>>

\* for term in search_terms: _fetch_all_daily(term) begins.
StartTerm ==
    /\ pc = "term"
    /\ ti <= Len(search_terms)
    /\ items' = <<>>
    /\ page' = 1
    /\ total_count' = 0
    /\ start' = now
    /\ pc' = "page"
    /\ UNCHANGED <<config, warnings, keyword_bundles, keyword_state, fanout_state,
                   result, now, kw_start, faults, trace>>

\* The loop over search_terms is over: the keyword's bundle is appended.
EndKeyword ==
    /\ pc = "term"
    /\ ti > Len(search_terms)
    /\ keyword_bundles' = Append(keyword_bundles,
                                 [token |-> tok, daily_terms |-> daily_candidates])
    /\ ki' = ki + 1
    /\ pc' = "keyword"
    /\ UNCHANGED <<config, warnings, daily_candidates, seen_daily_ids, search_terms, ti,
                   paging_state, fanout_state, result, now, kw_start, faults, trace>>

\* _fetch_all_daily returns items; the loop over daily_items begins.
ToFanout ==
    /\ ii' = 1
    /\ pc' = "items"

\* Faulty variant of WithinPageLimit: one page too many.
WithinPageLimit_OffByOne == page <= MAX_DAILY_PAGES + 1

\* The condition of `while page <= max_pages`.
WithinPageLimit == page <= MAX_DAILY_PAGES

\* Variant of PageLimit that records a warning when the page limit ends the loop.
PageLimit_Warns ==
    /\ pc = "page"
    /\ ~(page <= MAX_DAILY_PAGES)
    /\ warnings' = Append(warnings, [kind |-> "daily search page limit",
                                     about |-> search_terms[ti]])
    /\ ii' = 1
    /\ pc' = "items"
    /\ trace' = Append(trace, [op |-> "pagelimit", kw |-> ki, term |-> search_terms[ti]])
    /\ UNCHANGED <<config, keyword_bundles, keyword_state, paging_state,
                   mapped, li, legal_candidates, result, now, kw_start, faults>>

\* while page <= max_pages: the condition fails.
PageLimit ==
    /\ pc = "page"
    /\ ~WithinPageLimit
    /\ ToFanout
    /\ trace' = Append(trace, [op |-> "pagelimit", kw |-> ki, term |-> term])
    /\ UNCHANGED <<config, warnings, keyword_bundles, keyword_state, paging_state,
                   mapped, li, legal_candidates, result, now, kw_start, faults>>

\* Faulty variant of BudgetExceeded: the budget is taken for milliseconds.
BudgetExceeded_Millis == now - start > SEARCH_BUDGET_SEC * 1000

\* time.monotonic() - start > SEARCH_BUDGET_SEC
BudgetExceeded == now - start > SEARCH_BUDGET_SEC

\* The time check of the loop body fires: warn and break.
Timeout ==
    /\ pc = "page"
    /\ WithinPageLimit
    /\ BudgetExceeded
    /\ warnings' = Warn(warnings, "daily search timeout", term)
    /\ ToFanout
    /\ trace' = Append(trace, [op |-> "timeout", kw |-> ki, term |-> term,
                               since_term |-> now - start])
    /\ UNCHANGED <<config, keyword_bundles, keyword_state, paging_state,
                   mapped, li, legal_candidates, result, now, kw_start, faults>>

\* A search request is sent: what the history records of it.
SearchCall(outcome, n) ==
    [op |-> "search", kw |-> ki, term |-> term, page |-> page, outcome |-> outcome,
     n |-> n, since_term |-> now - start, since_kw |-> now - kw_start]

\* A request that fails or is slow uses up one of the faults explored.
Fault(failed, d) ==
    IF failed \/ d > 0
      THEN faults < MaxFaults /\ faults' = faults + 1
      ELSE faults' = faults

\* The remote requests run_pipeline wraps in try/except Exception.
Handled(request) == request \in {"search", "d2l", "l2a"}

\* An exception no handler catches leaves run_pipeline.
Propagate ==
    /\ pc' = "raised"
    /\ UNCHANGED <<warnings, keyword_state, paging_state, fanout_state>>

\* Faulty variant of FetchRaise: after the warning the loop turns the page
\* instead of breaking.
FetchRaise_Continue ==
    /\ pc = "page"
    /\ WithinPageLimit
    /\ ~BudgetExceeded
    /\ Fault(TRUE, 0)
    /\ trace' = Append(trace, SearchCall("raise", 0))
    /\ warnings' = Warn(warnings, "daily search failed", term)
    /\ page' = page + 1
    /\ UNCHANGED <<config, pc, keyword_bundles, keyword_state, items, total_count, start,
                   fanout_state, result, now, kw_start>>

\* fetch_daily_terms raises: warn and break.
FetchRaise ==
    /\ pc = "page"
    /\ WithinPageLimit
    /\ ~BudgetExceeded
    /\ Fault(TRUE, 0)
    /\ trace' = Append(trace, SearchCall("raise", 0))
    /\ IF Handled("search")
         THEN /\ warnings' = Warn(warnings, "daily search failed", term)
              /\ ToFanout
              /\ UNCHANGED <<keyword_state, paging_state, mapped, li, legal_candidates>>
         ELSE Propagate
    /\ UNCHANGED <<config, keyword_bundles, result, now, kw_start>>

\* Faulty variant of LastPage: a short page does not end the loop.
LastPage_CountOnly(all_items, count, batch) ==
    count # 0 /\ Len(all_items) >= count

\* The break conditions after a page has been added.
LastPage(all_items, count, batch) ==
    \/ count # 0 /\ Len(all_items) >= count
    \/ Len(batch) < per_page

\* fetch_daily_terms returns a page: extend items, then break or turn the page.
FetchReturn ==
    /\ pc = "page"
    /\ WithinPageLimit
    /\ ~BudgetExceeded
    /\ \E d \in Delays :
          /\ Fault(FALSE, d)
          /\ now' = now + d
    /\ LET res == FetchDailyTerms(remote, term, page, per_page)
           batch == res.items
           count == IF res.total_count # 0 THEN res.total_count ELSE total_count
       IN  /\ items' = items \o batch
           /\ total_count' = count
           /\ trace' = Append(trace, SearchCall("ok", Len(batch)))
           /\ IF LastPage(items \o batch, count, batch)
                THEN /\ ToFanout
                     /\ page' = page
                ELSE /\ page' = page + 1
                     /\ UNCHANGED <<pc, ii>>
    /\ UNCHANGED <<config, warnings, keyword_bundles, keyword_state, start,
                   mapped, li, legal_candidates, result, kw_start>>

\* Faulty variant of NextNew: ids seen before are not skipped.
NextNew_IgnoreSeen(daily_items, from, seen) ==
    LET new == {j \in from..Len(daily_items) : daily_items[j].id # NoId}
    IN  IF new = {} THEN 0 ELSE CHOOSE j \in new : \A k \in new : j <= k

\* The `continue` branch of the loop over daily_items skips the items without id
\* or with an id seen before: the index of the next item that is processed, or 0.
NextNew(daily_items, from, seen) ==
    LET new == {j \in from..Len(daily_items) :
                   daily_items[j].id # NoId /\ daily_items[j].id \notin seen}
    IN  IF new = {} THEN 0 ELSE CHOOSE j \in new : \A k \in new : j <= k

\* The loop over daily_items is over: on to the next search term.
ItemsDone ==
    /\ pc = "items"
    /\ NextNew(items, ii, seen_daily_ids) = 0
    /\ ti' = ti + 1
    /\ pc' = "term"
    /\ UNCHANGED <<config, warnings, keyword_bundles, ki, daily_candidates,
                   seen_daily_ids, search_terms, paging_state, fanout_state, result,
                   now, kw_start, faults, trace>>

\* Faulty variant of BeginDaily: the id is not marked seen.
BeginDaily_NotSeen(j, legal_terms, outcome) ==
    /\ seen_daily_ids' = seen_daily_ids
    /\ ii' = j
    /\ mapped' = Take(legal_terms, legal_per_daily)
    /\ li' = 1
    /\ legal_candidates' = <<>>
    /\ pc' = "legal"
    /\ trace' = Append(trace, [op |-> "d2l", kw |-> ki, id |-> items[j].id,
                               outcome |-> outcome])

\* A new everyday-term id: it is marked seen and its legal terms are asked for.
BeginDaily(j, legal_terms, outcome) ==
    /\ seen_daily_ids' = seen_daily_ids \cup {items[j].id}
    /\ ii' = j
    /\ mapped' = Take(legal_terms, legal_per_daily)
    /\ li' = 1
    /\ legal_candidates' = <<>>
    /\ pc' = "legal"
    /\ trace' = Append(trace, [op |-> "d2l", kw |-> ki, id |-> items[j].id,
                               outcome |-> outcome])

\* Faulty variant of DailyToLegalRaise: after the warning the everyday term is
\* dropped instead of being appended without legal terms.
DailyToLegalRaise_Skip ==
    /\ pc = "items"
    /\ LET j == NextNew(items, ii, seen_daily_ids)
       IN  /\ j # 0
           /\ Fault(TRUE, 0)
           /\ warnings' = Warn(warnings, "daily->legal failed", items[j].id)
           /\ seen_daily_ids' = seen_daily_ids \cup {items[j].id}
           /\ ii' = j + 1
           /\ trace' = Append(trace, [op |-> "d2l", kw |-> ki, id |-> items[j].id,
                                      outcome |-> "raise"])
    /\ UNCHANGED <<config, pc, keyword_bundles, ki, daily_candidates, search_terms, ti,
                   paging_state, mapped, li, legal_candidates, result, now, kw_start>>

\* fetch_daily_to_legal raises: warn, mapped = {"legal_terms": []}.
DailyToLegalRaise ==
    /\ pc = "items"
    /\ LET j == NextNew(items, ii, seen_daily_ids)
       IN  /\ j # 0
           /\ Fault(TRUE, 0)
           /\ IF Handled("d2l")
                THEN /\ warnings' = Warn(warnings, "daily->legal failed", items[j].id)
                     /\ BeginDaily(j, <<>>, "raise")
                     /\ UNCHANGED <<ki, daily_candidates, search_terms, ti, paging_state>>
                ELSE /\ Propagate
                     /\ trace' = Append(trace, [op |-> "d2l", kw |-> ki,
                                                id |-> items[j].id, outcome |-> "raise"])
    /\ UNCHANGED <<config, keyword_bundles, result, now, kw_start>>

\* fetch_daily_to_legal returns.
DailyToLegalReturn ==
    /\ pc = "items"
    /\ LET j == NextNew(items, ii, seen_daily_ids)
       IN  /\ j # 0
           /\ BeginDaily(j, FetchDailyToLegal(items[j].id), "ok")
    /\ UNCHANGED <<config, warnings, keyword_bundles, ki, daily_candidates, search_terms,
                   ti, paging_state, result, now, kw_start, faults>>

\* The loop over the legal terms skips those without id: the next one processed, or 0.
NextLegal(legal_terms, from) ==
    LET withId == {k \in from..Len(legal_terms) : legal_terms[k].id # NoId}
    IN  IF withId = {} THEN 0 ELSE CHOOSE k \in withId : \A m \in withId : k <= m

\* legal_candidates.append({**legal, articles, summary, legal_term_name})
LegalCandidate(legal, articles, legal_term_name) ==
    [id |-> legal.id, name |-> legal.name, relation_code |-> legal.relation_code,
     note |-> legal.note, articles |-> articles,
     summary |-> PickSummary([a \in 1..Len(articles) |-> articles[a].content],
                             SUMMARY_LIMIT),
     legal_term_name |-> legal_term_name]

\* fetch_legal_to_article raises: warn, article_result = {"articles": []}.
LegalToArticleRaise ==
    /\ pc = "legal"
    /\ LET k == NextLegal(mapped, li)
       IN  /\ k # 0
           /\ Fault(TRUE, 0)
           /\ trace' = Append(trace, [op |-> "l2a", kw |-> ki, id |-> mapped[k].id,
                                      outcome |-> "raise"])
           /\ IF Handled("l2a")
                THEN /\ warnings' = Warn(warnings, "legal->article failed", mapped[k].id)
                     /\ legal_candidates' =
                           Append(legal_candidates,
                                  LegalCandidate(mapped[k], <<>>, mapped[k].name))
                     /\ li' = k + 1
                     /\ UNCHANGED <<pc, keyword_state, paging_state, ii, mapped>>
                ELSE Propagate
    /\ UNCHANGED <<config, keyword_bundles, result, now, kw_start>>

\* fetch_legal_to_article returns.
LegalToArticleReturn ==
    /\ pc = "legal"
    /\ LET k == NextLegal(mapped, li)
           article_result == FetchLegalToArticle(mapped[k].id)
       IN  /\ k # 0
           /\ legal_candidates' =
                 Append(legal_candidates,
                        LegalCandidate(mapped[k], article_result.articles,
                                       article_result.legal_term_name))
           /\ li' = k + 1
           /\ trace' = Append(trace, [op |-> "l2a", kw |-> ki, id |-> mapped[k].id,
                                      outcome |-> "ok"])
    /\ UNCHANGED <<config, pc, warnings, keyword_bundles, keyword_state, paging_state,
                   ii, mapped, result, now, kw_start, faults>>

\* daily_candidates.append({**daily_item, "keyword": tok, "legal_terms": ...})
DailyCandidate(daily_item, keyword, legal_terms) ==
    [id |-> daily_item.id, name |-> daily_item.name, source |-> daily_item.source,
     keyword |-> keyword, legal_terms |-> legal_terms]

\* Faulty variant of AppendCandidate: the everyday term is put in front of the
\* candidates the keyword already has.
AppendCandidate_Prepend ==
    /\ pc = "legal"
    /\ NextLegal(mapped, li) = 0
    /\ daily_candidates' =
          <<DailyCandidate(items[ii], tok, legal_candidates)>> \o daily_candidates
    /\ ii' = ii + 1
    /\ pc' = "items"
    /\ UNCHANGED <<config, warnings, keyword_bundles, ki, seen_daily_ids, search_terms,
                   ti, paging_state, mapped, li, legal_candidates, result, now,
                   kw_start, faults, trace>>

\* The loop over the legal terms is over: the everyday term is appended.
AppendCandidate ==
    /\ pc = "legal"
    /\ NextLegal(mapped, li) = 0
    /\ daily_candidates' =
          Append(daily_candidates, DailyCandidate(items[ii], tok, legal_candidates))
    /\ ii' = ii + 1
    /\ pc' = "items"
    /\ UNCHANGED <<config, warnings, keyword_bundles, ki, seen_daily_ids, search_terms,
                   ti, paging_state, mapped, li, legal_candidates, result, now,
                   kw_start, faults, trace>>

Next ==
    \/ Extract
    \/ StartKeyword
    \/ Return
    \/ StartTerm
    \/ EndKeyword
    \/ PageLimit
    \/ Timeout
    \/ FetchRaise
    \/ FetchReturn
    \/ ItemsDone
    \/ DailyToLegalRaise
    \/ DailyToLegalReturn
    \/ LegalToArticleRaise
    \/ LegalToArticleReturn
    \/ AppendCandidate

Spec == Init /\ [][Next]_vars

(***************************************************************************)
(* Calls of the functions of the library: extract_keywords,                *)
(* _derive_meaning_units, local_daily_candidates and run_pipeline          *)
(***************************************************************************)

\* Bounds of the arguments explored.
MaxWords == 2
MaxTopK == 3
MaxTokenLen == 4
MaxRelations == 3
MaxDailyBound == 2

\* The words the texts are made of.
S_bilryeotneunde == <<"bil", "ryeot", "neun", "de">>
S_motbatateoyo == <<"mot", "bat", "at", "eo", "yo">>
S_gongbuhaneyo == <<"gong", "bu", "ha", "ne", "yo">>
S_geurigo == <<"geu", "ri", "go">>
S_doneul == <<"don", "eul">>
S_bilryeo == <<"bil", "ryeo">>
SurfaceWords ==
    {S_bilryeotneunde, S_motbatateoyo, S_gongbuhaneyo, W_boheom, S_geurigo, S_doneul,
     S_bilryeo}

\* The words of a list, separated by blanks.
RECURSIVE JoinWords(_)
JoinWords(ws) ==
    IF ws = <<>> THEN <<>>
    ELSE IF Len(ws) = 1 THEN Head(ws)
    ELSE Head(ws) \o <<" ">> \o JoinWords(Tail(ws))

\* The text argument of extract_keywords: up to MaxWords words.
Texts == {JoinWords(ws) : ws \in UNION {[1..n -> SurfaceWords] : n \in 0..MaxWords}}

\* The top_k argument: the small values and the default.
TopKs == (0..MaxTopK) \cup {TOP_K_DEFAULT}

\* The extra_stopwords argument.
ExtraStopwords == { {}, {<<"bil", "ri", "da">>}, {W_chayong, W_boheom} }

\* An answer of okt.pos(word, norm=True, stem=True): pairs of a morpheme in
\* its dictionary form and the first letter of its tag.
OktPos(word) ==
    CASE word = S_bilryeotneunde -> << [word |-> <<"bil", "ri", "da">>, tag |-> "V"] >>
      [] word = S_motbatateoyo -> << [word |-> <<"mot">>, tag |-> "V"],
                                    [word |-> <<"bat", "da">>, tag |-> "V"] >>
      [] word = S_gongbuhaneyo -> << [word |-> <<"gong", "bu">>, tag |-> "N"],
                                    [word |-> W_hada, tag |-> "V"] >>
      [] word = W_boheom -> << [word |-> W_boheom, tag |-> "N"] >>
      [] word = S_geurigo -> << [word |-> S_geurigo, tag |-> "C"] >>
      [] word = S_doneul -> << [word |-> W_don, tag |-> "N"],
                              [word |-> <<"eul">>, tag |-> "J"] >>
      [] word = S_bilryeo -> << [word |-> <<"bil", "ri", "da">>, tag |-> "V"] >>
      [] OTHER -> <<>>

\* The words of a text, as the blanks separate them.
RECURSIVE SplitWords(_, _)
SplitWords(txt, word) ==
    IF txt = <<>> THEN (IF word = <<>> THEN <<>> ELSE <<word>>)
    ELSE IF Head(txt) = " "
           THEN (IF word = <<>> THEN <<>> ELSE <<word>>) \o SplitWords(Tail(txt), <<>>)
    ELSE SplitWords(Tail(txt), Append(word, Head(txt)))

\* An answer of okt.pos for a text.
RECURSIVE OktPosAll(_)
OktPosAll(ws) == IF ws = <<>> THEN <<>> ELSE OktPos(Head(ws)) \o OktPosAll(Tail(ws))

OktAnswer(txt) == OktPosAll(SplitWords(txt, <<>>))

\* The calls of extract_keywords explored, with the tokenizer in use.
ExtractCalls ==
    { [fn |-> "extract_keywords", text |-> t, top_k |-> k, extra_stopwords |-> x,
       expand_synonyms |-> e, okt |-> o] :
         t \in Texts, k \in TopKs, x \in ExtraStopwords, e \in BOOLEAN,
         o \in {TRUE, FALSE} }

\* The characters the token argument of _derive_meaning_units is made of.
TokenSyllables == {"bil", "ryeot", "ri", "ha", "haet", "da", "ne", "yo"}

\* The stems the endings are put behind.
Stems == { <<"gong", "bu", "ha">>, <<"hak", "saeng">> }

\* A stem followed by an entry of ENDINGS_TO_STRIP.
EndedTokens ==
    {st \o ENDINGS_TO_STRIP[k] : st \in Stems, k \in 1..Len(ENDINGS_TO_STRIP)}

DeriveCalls ==
    { [fn |-> "_derive_meaning_units", token |-> t] :
         t \in UNION {[1..n -> TokenSyllables] : n \in 1..MaxTokenLen}
                \cup EndedTokens }

\* The rows lstrm_rlt.jsonl is made of and the terms lstrm.jsonl holds.
RelationRows ==
    { [legal_id |-> "L1", daily_id |-> "c1", daily_name |-> "boheomtan don",
       relation_code |-> "r1"],
      [legal_id |-> "L2", daily_id |-> "c1", daily_name |-> "boheomtan don",
       relation_code |-> "r2"],
      [legal_id |-> "L1", daily_id |-> "c2", daily_name |-> "boheom don",
       relation_code |-> "r1"],
      [legal_id |-> "L2", daily_id |-> NoId, daily_name |-> "nameless id",
       relation_code |-> "r3"],
      [legal_id |-> "L3", daily_id |-> "c3", daily_name |-> "sogim",
       relation_code |-> "r1"],
      [legal_id |-> "L1", daily_id |-> "c9", daily_name |-> "",
       relation_code |-> "r1"] }

LegalTerms ==
    << [id |-> "L1", name |-> L_boheomgeum, note |-> ""],
       [id |-> NoId, name |-> L_boheomgyeyak, note |-> ""],
       [id |-> "L2", name |-> L_boheomryo, note |-> "n2"],
       [id |-> "L3", name |-> W_sagi, note |-> ""] >>

Snapshots ==
    { [legal_terms |-> LegalTerms, relations |-> rs] :
         rs \in UNION {[1..n -> RelationRows] : n \in 0..MaxRelations} }

CacheCalls ==
    { [fn |-> "local_daily_candidates", snapshot |-> c, token |-> t, max_daily |-> d,
       max_legal |-> l] :
         c \in Snapshots, t \in {W_boheom, L_boheomgeum},
         d \in 1..MaxDailyBound, l \in {1, MAX_LEGAL_DEFAULT} }

\* The characters the short article contents are made of, and their length.
MaxContentLen == 4
ContentChars == {"A", ".", " ", "!", "nl"}

\* n times the letter A.
Letters(n) == [i \in 1..n |-> "A"]

\* The article contents: the short ones, and sentences around the length limit.
Contents ==
    UNION {[1..n -> ContentChars] : n \in 0..MaxContentLen}
        \cup {Letters(SUMMARY_LIMIT), Letters(SUMMARY_LIMIT + 1),
              Letters(SUMMARY_LIMIT) \o <<"!", "A">>,
              Letters(SUMMARY_LIMIT + 1) \o <<"!", "A">>}

\* The calls of _pick_summary explored: one article, or one with a second
\* article behind it.
SummaryCalls ==
    { [fn |-> "_pick_summary", contents |-> cs] :
         cs \in {<<c>> : c \in Contents} \cup {<<c, <<"A", "A">> >> : c \in Contents} }

\* A call of extract_keywords, _derive_meaning_units, local_daily_candidates or
\* _pick_summary: run_pipeline is not running.
InitLibraryCall ==
    /\ NoCollector
    /\ call \in ExtractCalls \cup DeriveCalls \cup CacheCalls \cup SummaryCalls
    /\ ret = NoReturn
    /\ earlier = NoEarlier
    /\ down = {}
    /\ text = T_empty
    /\ top_k = TOP_K_DEFAULT
    /\ cache = CacheEmpty
    /\ remote = "small"
    /\ MAX_DAILY_PAGES = 1
    /\ daily_per_keyword = 1
    /\ legal_per_daily = 1
    /\ pc = "idle"
    /\ InitRun

\* A call of run_pipeline, with LAWGO_MAX_PAGES=2 and legal_per_daily=1.
InitRunCall ==
    /\ NoCollector
    /\ call = RunCall
    /\ ret = NoReturn
    /\ earlier = NoEarlier
    /\ down = {}
    /\ \E s \in Scenarios :
          /\ text = s.text
          /\ daily_per_keyword = s.daily_per_keyword
          /\ cache = s.cache
          /\ remote = s.remote
    /\ top_k = TOP_K_DEFAULT
    /\ MAX_DAILY_PAGES = 2
    /\ legal_per_daily = 1
    /\ pc = "extract"
    /\ InitRun

InitCalls == InitLibraryCall \/ InitRunCall

Returns(value) ==
    /\ ret' = [returned |-> TRUE, value |-> value]
    /\ UNCHANGED <<inputs, tokens, call, earlier, down, collector, pc, warnings, keyword_bundles,
                   keyword_state, paging_state, fanout_state, result, now, kw_start,
                   faults, trace>>

\* extract_keywords(text, top_k, extra_stopwords, expand_synonyms)
CallExtractKeywords ==
    /\ call.fn = "extract_keywords"
    /\ ~ret.returned
    /\ Returns(ExtractKeywords(call.text, call.top_k, call.extra_stopwords,
                               call.expand_synonyms,
                               IF call.okt THEN OktAnswer(call.text) ELSE NoOkt))

\* _derive_meaning_units(token)
CallDeriveMeaningUnits ==
    /\ call.fn = "_derive_meaning_units"
    /\ ~ret.returned
    /\ Returns(DeriveMeaningUnits(call.token))

\* local_daily_candidates(token, max_daily, max_legal)
CallLocalDailyCandidates ==
    /\ call.fn = "local_daily_candidates"
    /\ ~ret.returned
    /\ Returns(LocalDailyCandidates(call.snapshot, call.token, call.max_daily,
                                    call.max_legal))

\* _pick_summary(contents)
CallPickSummary ==
    /\ call.fn = "_pick_summary"
    /\ ~ret.returned
    /\ Returns(PickSummary(call.contents, SUMMARY_LIMIT))

NextCalls ==
    \/ CallExtractKeywords
    \/ CallPickSummary
    \/ CallDeriveMeaningUnits
    \/ CallLocalDailyCandidates
    \/ Next

SpecCalls == InitCalls /\ [][NextCalls]_vars

(***************************************************************************)
(* Two calls of run_pipeline, one after the other, with the same arguments *)
(* against the same cache files and a remote service that answers every    *)
(* request the same way: the requests of down fail, the others succeed.    *)
(* How long an answer takes is up to the service.                          *)
(***************************************************************************)

T_chingu == W_chingu

\* A request to the remote service: a page of the search of a term, or the
\* lookup of an id (a key of one element).
Request(op, key, pg) == [op |-> op, key |-> key, page |-> pg]

\* The sets of failing requests explored.
DownSets ==
    { {},
      {Request("search", W_jiin, 1)},
      {Request("d2l", <<"d1">>, 0)},
      {Request("l2a", <<"l1">>, 0)},
      {Request("search", W_chingu, 2), Request("d2l", <<"d2">>, 0)} }

InitTwice ==
    /\ NoCollector
    /\ call = RunCall
    /\ ret = NoReturn
    /\ earlier = NoEarlier
    /\ down \in DownSets
    /\ text = T_chingu
    /\ top_k = TOP_K_DEFAULT
    /\ cache = CacheEmpty
    /\ remote = "large"
    /\ MAX_DAILY_PAGES = 2
    /\ daily_per_keyword = 2
    /\ legal_per_daily = 1
    /\ pc = "extract"
    /\ InitRun

\* The requests the loops are about to send.
SearchRequest == Request("search", term, page)
DailyToLegalRequest == Request("d2l", <<items[NextNew(items, ii, seen_daily_ids)].id>>, 0)
LegalToArticleRequest == Request("l2a", <<mapped[NextLegal(mapped, li)].id>>, 0)

\* The service answers the request as down tells.
SearchFails == pc = "page" /\ SearchRequest \in down /\ FetchRaise
SearchAnswers == pc = "page" /\ SearchRequest \notin down /\ FetchReturn
DailyToLegalFails ==
    /\ pc = "items"
    /\ NextNew(items, ii, seen_daily_ids) # 0
    /\ DailyToLegalRequest \in down
    /\ DailyToLegalRaise
DailyToLegalAnswers ==
    /\ pc = "items"
    /\ NextNew(items, ii, seen_daily_ids) # 0
    /\ DailyToLegalRequest \notin down
    /\ DailyToLegalReturn
LegalToArticleFails ==
    /\ pc = "legal"
    /\ NextLegal(mapped, li) # 0
    /\ LegalToArticleRequest \in down
    /\ LegalToArticleRaise
LegalToArticleAnswers ==
    /\ pc = "legal"
    /\ NextLegal(mapped, li) # 0
    /\ LegalToArticleRequest \notin down
    /\ LegalToArticleReturn

\* Faulty variant of CallAgain: the warnings list outlives the call.
CallAgain_KeepWarnings ==
    /\ pc = "done"
    /\ ~earlier.called
    /\ earlier' = [called |-> TRUE, bundle |-> result]
    /\ pc' = "extract"
    /\ tokens' = <<>>
    /\ keyword_bundles' = <<>>
    /\ ki' = 1
    /\ daily_candidates' = <<>>
    /\ seen_daily_ids' = {}
    /\ search_terms' = <<>>
    /\ ti' = 1
    /\ items' = <<>>
    /\ page' = 1
    /\ total_count' = 0
    /\ start' = 0
    /\ ii' = 1
    /\ mapped' = <<>>
    /\ li' = 1
    /\ legal_candidates' = <<>>
    /\ result' = NoResult
    /\ now' = 0
    /\ kw_start' = 0
    /\ faults' = 0
    /\ trace' = <<>>
    /\ UNCHANGED <<inputs, call, ret, down, collector, warnings>>

\* run_pipeline is called again with the same arguments: the bundle of the
\* first call is kept for comparison, the locals are fresh.  The clock is read
\* through differences only and starts at 0 again.
CallAgain ==
    /\ pc = "done"
    /\ ~earlier.called
    /\ earlier' = [called |-> TRUE, bundle |-> result]
    /\ pc' = "extract"
    /\ tokens' = <<>>
    /\ warnings' = <<>>
    /\ keyword_bundles' = <<>>
    /\ ki' = 1
    /\ daily_candidates' = <<>>
    /\ seen_daily_ids' = {}
    /\ search_terms' = <<>>
    /\ ti' = 1
    /\ items' = <<>>
    /\ page' = 1
    /\ total_count' = 0
    /\ start' = 0
    /\ ii' = 1
    /\ mapped' = <<>>
    /\ li' = 1
    /\ legal_candidates' = <<>>
    /\ result' = NoResult
    /\ now' = 0
    /\ kw_start' = 0
    /\ faults' = 0
    /\ trace' = <<>>
    /\ UNCHANGED <<inputs, call, ret, down, collector>>

NextTwice ==
    \/ Extract
    \/ StartKeyword
    \/ Return
    \/ StartTerm
    \/ EndKeyword
    \/ PageLimit
    \/ Timeout
    \/ SearchFails
    \/ SearchAnswers
    \/ ItemsDone
    \/ DailyToLegalFails
    \/ DailyToLegalAnswers
    \/ LegalToArticleFails
    \/ LegalToArticleAnswers
    \/ AppendCandidate
    \/ CallAgain

SpecTwice == InitTwice /\ [][NextTwice]_vars

(***************************************************************************)
(* scripts/fetch_lstrm_rlt.py: the relations command with --resume, which  *)
(* may be interrupted and run again                                        *)
(***************************************************************************)

\* The runs of the command that are interrupted, at most.
MaxInterrupts == 2

\* What run_pipeline and the library functions keep: the command does not
\* touch it.
pipeline == <<inputs, tokens, call, ret, earlier, down, pc, warnings, keyword_bundles,
              keyword_state, paging_state, fanout_state, result, now, kw_start, trace>>

\* lstrm.jsonl: an id is one MST or several, separated by commas and blanks.
LstrmFile ==
    << [id |-> <<"L1">>, name |-> "one"],
       [id |-> <<>>, name |-> "no id"],
       [id |-> <<"L2", ",", " ", "L3", ",">>, name |-> "two, three"],
       [id |-> <<"L1">>, name |-> "one again"] >>

\* raw_id.replace(" ", "").split(",") without the empty parts: the characters
\* between the commas, blanks dropped.
RECURSIVE Parts(_, _)
Parts(raw_id, part) ==
    IF raw_id = <<>> THEN (IF part = <<>> THEN <<>> ELSE <<part>>)
    ELSE IF Head(raw_id) = ","
           THEN (IF part = <<>> THEN <<>> ELSE <<part>>) \o Parts(Tail(raw_id), <<>>)
    ELSE IF Head(raw_id) = " " THEN Parts(Tail(raw_id), part)
    ELSE Parts(Tail(raw_id), Append(part, Head(raw_id)))

\* The two loops of collect_relations, over legal_terms and over the parts of
\* an id: the MSTs in the order they are visited, each with the name of its term.
RECURSIVE Msts(_)
Msts(legal_terms) ==
    IF legal_terms = <<>> THEN <<>>
    ELSE LET parts == Parts(Head(legal_terms).id, <<>>)
         IN  [k \in 1..Len(parts) |-> [mst |-> parts[k], legal_name |-> Head(legal_terms).name]]
             \o Msts(Tail(legal_terms))

\* fetch_lstrm_rlt(mst) when the request succeeds: the first list of dicts of
\* the answer, <<>> when the answer holds none.
FetchLstrmRlt(mst) ==
    CASE mst = <<"L1">> ->
            << [daily_id |-> "c1", daily_name |-> "n1", relation_code |-> "r1"],
               [daily_id |-> "", daily_name |-> "", relation_code |-> "r1"],
               [daily_id |-> "c2", daily_name |-> "n2", relation_code |-> "r2"] >>
      [] mst = <<"L3">> ->
            << [daily_id |-> "", daily_name |-> "n3", relation_code |-> "r1"] >>
      [] OTHER -> <<>>

\* The row collect_relations writes for an item.
RelationRow(m, item) ==
    [legal_id |-> m.mst, legal_name |-> m.legal_name, daily_id |-> item.daily_id,
     daily_name |-> item.daily_name, relation_code |-> item.relation_code]

\* main with --resume: the legal ids of the rows lstrm_rlt.jsonl holds.
ProcessedIn(rows) == {rows[k].legal_id : k \in 1..Len(rows)}

\* The --flush-every values explored.
FlushEverys == {1, 2, FLUSH_EVERY_DEFAULT}

InitCollect ==
    /\ call = [fn |-> "relations --resume"]
    /\ ret = NoReturn
    /\ earlier = NoEarlier
    /\ down = {}
    /\ text = T_empty
    /\ top_k = TOP_K_DEFAULT
    /\ cache = CacheEmpty
    /\ remote = "small"
    /\ MAX_DAILY_PAGES = 1
    /\ daily_per_keyword = 1
    /\ legal_per_daily = 1
    /\ pc = "idle"
    /\ InitRun
    /\ rlt_file = <<>>
    /\ writer = <<>>
    /\ written = 0
    /\ processed_ids = {}
    /\ flush_every \in FlushEverys
    /\ mi = 1
    /\ rlt_items = <<>>
    /\ ri = 1
    /\ cpc = "main"
    /\ interrupts = 0
    /\ answered = {}

\* The next MST from index k on that is not in processed_ids, or 0.
NextMst(k, processed) ==
    LET todo == {j \in k..Len(Msts(LstrmFile)) : Msts(LstrmFile)[j].mst \notin processed}
    IN  IF todo = {} THEN 0 ELSE CHOOSE j \in todo : \A q \in todo : j <= q

\* main, relations --resume: the processed ids are read from lstrm_rlt.jsonl,
\* collect_relations opens the file for appending.
Main ==
    /\ cpc = "main"
    /\ processed_ids' = ProcessedIn(rlt_file)
    /\ writer' = <<>>
    /\ written' = 0
    /\ mi' = 1
    /\ rlt_items' = <<>>
    /\ ri' = 1
    /\ cpc' = "msts"
    /\ UNCHANGED <<pipeline, faults, rlt_file, flush_every, interrupts, answered>>

\* fetch_lstrm_rlt gives up after its retries and returns {}: the MST is left
\* for a later run.
FetchGivesUp ==
    /\ cpc = "msts"
    /\ NextMst(mi, processed_ids) # 0
    /\ faults < MaxFaults
    /\ faults' = faults + 1
    /\ mi' = NextMst(mi, processed_ids) + 1
    /\ UNCHANGED <<pipeline, rlt_file, writer, written, processed_ids, flush_every,
                   rlt_items, ri, cpc, interrupts, answered>>

\* fetch_lstrm_rlt returns the answer: without a list the MST is passed over,
\* with one the loop over its items begins.
FetchAnswers ==
    /\ cpc = "msts"
    /\ LET k == NextMst(mi, processed_ids)
           lists == FetchLstrmRlt(Msts(LstrmFile)[k].mst)
       IN  /\ k # 0
           /\ answered' = answered \cup {Msts(LstrmFile)[k].mst}
           /\ IF lists = <<>>
                THEN /\ mi' = k + 1
                     /\ UNCHANGED <<rlt_items, ri, cpc>>
                ELSE /\ mi' = k
                     /\ rlt_items' = lists
                     /\ ri' = 1
                     /\ cpc' = "items"
    /\ UNCHANGED <<pipeline, faults, rlt_file, writer, written, processed_ids,
                   flush_every, interrupts>>

\* One turn of the loop over items: an item without id and name is skipped,
\* the row of another is written, and every flush_every rows the file is flushed.
WriteItem ==
    /\ cpc = "items"
    /\ ri <= Len(rlt_items)
    /\ ri' = ri + 1
    /\ IF rlt_items[ri].daily_id = "" /\ rlt_items[ri].daily_name = ""
         THEN UNCHANGED <<rlt_file, writer, written>>
         ELSE LET rows == Append(writer, RelationRow(Msts(LstrmFile)[mi], rlt_items[ri]))
              IN  /\ written' = written + 1
                  /\ IF (written + 1) % flush_every = 0
                       THEN rlt_file' = rlt_file \o rows /\ writer' = <<>>
                       ELSE writer' = rows /\ UNCHANGED rlt_file
    /\ UNCHANGED <<pipeline, faults, processed_ids, flush_every, mi, rlt_items, cpc,
                   interrupts, answered>>

\* The loop over items is over: processed_ids.add(mst).
MstDone ==
    /\ cpc = "items"
    /\ ri > Len(rlt_items)
    /\ processed_ids' = processed_ids \cup {Msts(LstrmFile)[mi].mst}
    /\ mi' = mi + 1
    /\ cpc' = "msts"
    /\ UNCHANGED <<pipeline, faults, rlt_file, writer, written, flush_every, rlt_items,
                   ri, interrupts, answered>>

\* The loops are over: flush and close.
Finish ==
    /\ cpc = "msts"
    /\ NextMst(mi, processed_ids) = 0
    /\ rlt_file' = rlt_file \o writer
    /\ writer' = <<>>
    /\ cpc' = "finished"
    /\ UNCHANGED <<pipeline, faults, written, processed_ids, flush_every, mi, rlt_items,
                   ri, interrupts, answered>>

\* The run is interrupted: of the rows written and not flushed, those the
\* buffer had handed over or hands over at exit are in the file, the others are
\* lost.  The command is then run again with --resume.
Interrupt ==
    /\ cpc \in {"msts", "items"}
    /\ interrupts < MaxInterrupts
    /\ interrupts' = interrupts + 1
    /\ \E n \in 0..Len(writer) : rlt_file' = rlt_file \o SubSeq(writer, 1, n)
    /\ writer' = <<>>
    /\ cpc' = "main"
    /\ UNCHANGED <<pipeline, faults, written, processed_ids, flush_every, mi, rlt_items,
                   ri, answered>>

NextCollect ==
    \/ Main
    \/ FetchGivesUp
    \/ FetchAnswers
    \/ WriteItem
    \/ MstDone
    \/ Finish
    \/ Interrupt

SpecCollect == InitCollect /\ [][NextCollect]_vars

(***************************************************************************)
(* Helpers of the properties                                               *)
(***************************************************************************)

IsCache(cand) == cand.source = "cache:lstrmRlt"

\* What the cache offers for the keyword of bundle b.
LocalOf(b) ==
    LocalDailyCandidates(cache, tokens[b], daily_per_keyword * 2, MAX_LEGAL_DEFAULT)

\* The search terms of the keyword of bundle b.
SearchTermsOf(b) == <<tokens[b]>> \o ExpandRelatedTerms(tokens[b])

\* The indices of the history entries of one kind.
Entries(op) == {i \in 1..Len(trace) : trace[i].op = op}

\* The items the successful searches of keyword b returned, in the order fetched.
RECURSIVE OfferedFrom(_, _)
OfferedFrom(b, i) ==
    IF i > Len(trace) THEN <<>>
    ELSE (IF trace[i].op = "search" /\ trace[i].kw = b /\ trace[i].outcome = "ok"
            THEN FetchDailyTerms(remote, trace[i].term, trace[i].page, per_page).items
            ELSE <<>>)
         \o OfferedFrom(b, i + 1)

Offered(b) == OfferedFrom(b, 1)

\* The ids of a list of records, in order.
Ids(s) == [i \in 1..Len(s) |-> s[i].id]

\* The first occurrences of the elements of s that are not in skip.
RECURSIVE FirstOccurrences(_, _)
FirstOccurrences(s, skip) ==
    IF s = <<>> THEN <<>>
    ELSE IF Head(s) \in skip THEN FirstOccurrences(Tail(s), skip)
    ELSE <<Head(s)>> \o FirstOccurrences(Tail(s), skip \cup {Head(s)})

\* run_pipeline has returned.
Done == pc = "done"

(***************************************************************************)
(* C1: in the returned bundle no two everyday-term candidates of a keyword *)
(* entry have the same id, whether they came from the cache, from the      *)
(* search of the token or from the search of an expansion term.            *)
(***************************************************************************)
C1_UniqueDailyIds ==
    Done =>
        \A b \in 1..Len(result.tokens) :
            LET cands == result.tokens[b].daily_terms
            IN  \A i, j \in 1..Len(cands) : i # j => cands[i].id # cands[j].id

\* A returned bundle where an id was offered by the cache and by a search of the
\* same keyword, and another id by the searches of two search terms of a keyword.
C1_Witness ==
    /\ Done
    /\ \E b \in 1..Len(result.tokens) :
          \E i \in 1..Len(LocalOf(b)), j \in 1..Len(Offered(b)) :
              LocalOf(b)[i].id = Offered(b)[j].id
    /\ \E i, j \in Entries("search") :
          /\ trace[i].kw = trace[j].kw
          /\ trace[i].term # trace[j].term
          /\ trace[i].outcome = "ok" /\ trace[j].outcome = "ok"
          /\ \E x \in Range(FetchDailyTerms(remote, trace[i].term, trace[i].page,
                                             per_page).items) :
                /\ x.id # NoId
                /\ x.id \notin Range(Ids(LocalOf(trace[i].kw)))
                /\ x \in Range(FetchDailyTerms(remote, trace[j].term, trace[j].page,
                                               per_page).items)

(***************************************************************************)
(* C2: in every keyword entry of the returned bundle the cache-sourced     *)
(* candidates come before every remote-sourced candidate, and an id that   *)
(* the cache and the remote search both offer is kept as the cache's       *)
(* candidate.                                                              *)
(***************************************************************************)
C2_CacheFirst ==
    Done =>
        \A b \in 1..Len(result.tokens) :
            LET cands == result.tokens[b].daily_terms
            IN  /\ \A i, j \in 1..Len(cands) :
                      IsCache(cands[j]) /\ ~IsCache(cands[i]) => j < i
                /\ \A k \in 1..Len(LocalOf(b)) :
                      \E i \in 1..Len(cands) : cands[i] = LocalOf(b)[k]
                /\ \A i \in 1..Len(cands) :
                      cands[i].id \in Range(Ids(LocalOf(b))) => IsCache(cands[i])

\* A returned keyword entry holding cache and remote candidates, for a keyword
\* where the search offered an id the cache had offered.
C2_Witness ==
    /\ Done
    /\ \E b \in 1..Len(result.tokens) :
          LET cands == result.tokens[b].daily_terms
          IN  /\ \E i, j \in 1..Len(cands) : IsCache(cands[i]) /\ ~IsCache(cands[j])
              /\ \E i \in 1..Len(LocalOf(b)), j \in 1..Len(Offered(b)) :
                    LocalOf(b)[i].id = Offered(b)[j].id

(***************************************************************************)
(* C3: every everyday-term candidate of the returned bundle, cache-sourced *)
(* or remote-sourced, has at most legal_per_daily legal terms.             *)
(***************************************************************************)
C3_LegalWithinLimit ==
    Done =>
        \A b \in 1..Len(result.tokens) :
            LET cands == result.tokens[b].daily_terms
            IN  \A i \in 1..Len(cands) : Len(cands[i].legal_terms) <= legal_per_daily

(***************************************************************************)
(* Helpers of the properties about failures and budgets                    *)
(***************************************************************************)

\* How many warnings of a kind are about a thing.
CountWarnings(kind, about) ==
    Cardinality({i \in 1..Len(warnings) :
                    warnings[i].kind = kind /\ warnings[i].about = about})

\* How many requests of an operation for an id (or search term) raised.
CountRaised(op, about) ==
    Cardinality({i \in Entries(op) :
                    /\ trace[i].outcome = "raise"
                    /\ (IF op = "search" THEN trace[i].term ELSE trace[i].id) = about})

\* Every failure left exactly one warning of its kind.
OneWarningPerFailure ==
    /\ \A i \in Entries("search") :
          CountWarnings("daily search failed", trace[i].term)
              = CountRaised("search", trace[i].term)
    /\ \A i \in Entries("d2l") :
          CountWarnings("daily->legal failed", trace[i].id) = CountRaised("d2l", trace[i].id)
    /\ \A i \in Entries("l2a") :
          CountWarnings("legal->article failed", trace[i].id)
              = CountRaised("l2a", trace[i].id)

\* The history entries of the article requests made right after entry i.
RECURSIVE ArticleCalls(_)
ArticleCalls(i) ==
    IF i + 1 <= Len(trace) /\ trace[i + 1].op = "l2a"
      THEN <<trace[i + 1]>> \o ArticleCalls(i + 1)
      ELSE <<>>

\* The legal terms with an id among the first legal_per_daily the service holds.
LinksOf(daily_id) ==
    LET first == Take(FetchDailyToLegal(daily_id), legal_per_daily)
    IN  FirstOccurrences(Ids(first), {NoId})

\* The candidates of a list that came from the search, and those from the cache.
RECURSIVE RemoteOnly(_)
RemoteOnly(cands) ==
    IF cands = <<>> THEN <<>>
    ELSE (IF IsCache(Head(cands)) THEN <<>> ELSE <<Head(cands)>>) \o RemoteOnly(Tail(cands))

CacheIds(cands) == {cands[i].id : i \in {k \in 1..Len(cands) : IsCache(cands[k])}}

\* Every page that was fetched is kept and fanned out: the remote candidates of
\* each returned keyword entry are the ids of the fetched pages that the entry's
\* cache candidates do not have, in the order of their first occurrence.
FetchedIsFannedOut ==
    \A b \in 1..Len(result.tokens) :
        LET cands == result.tokens[b].daily_terms
        IN  Ids(RemoteOnly(cands))
                = FirstOccurrences(Ids(Offered(b)), {NoId} \cup CacheIds(cands))

\* Every search term of every keyword had its first page asked for.
AllTermsSearched ==
    /\ Len(result.tokens) = Len(tokens)
    /\ \A b \in 1..Len(tokens) :
          \A t \in 1..Len(SearchTermsOf(b)) :
              \E i \in Entries("search") :
                  /\ trace[i].kw = b
                  /\ trace[i].term = SearchTermsOf(b)[t]
                  /\ trace[i].page = 1

\* No search request for the search term of entry i follows entry i.
NoLaterPage(i) ==
    \A j \in Entries("search") :
        j > i => ~(trace[j].kw = trace[i].kw /\ trace[j].term = trace[i].term)

(***************************************************************************)
(* C4: when fetch_daily_to_legal raises for an everyday-term id, the term  *)
(* is still appended with an empty legal_terms list and one warning; when  *)
(* fetch_legal_to_article raises for a legal-term id, the link is still    *)
(* attached with no articles, an empty summary and one warning; siblings,  *)
(* search terms and keywords are processed as without the failure.         *)
(***************************************************************************)
C4_FailedHopDegrades ==
    Done =>
        /\ OneWarningPerFailure
        /\ FetchedIsFannedOut
        /\ AllTermsSearched
        /\ \A i \in Entries("d2l") :
              LET cands == RemoteOnly(result.tokens[trace[i].kw].daily_terms)
                  calls == ArticleCalls(i)
              IN  \E c \in 1..Len(cands) :
                    /\ cands[c].id = trace[i].id
                    /\ Ids(cands[c].legal_terms)
                          = (IF trace[i].outcome = "raise" THEN <<>>
                             ELSE LinksOf(trace[i].id))
                    /\ Ids(calls) = Ids(cands[c].legal_terms)
                    /\ \A k \in 1..Len(calls) :
                          LET link == cands[c].legal_terms[k]
                              held == FetchLegalToArticle(link.id).articles
                          IN  IF calls[k].outcome = "raise"
                                THEN link.articles = <<>> /\ link.summary = <<>>
                                ELSE link.articles = held

\* A returned bundle where a daily->legal request failed and a later everyday
\* term of the same keyword was resolved, and a legal->article request failed
\* and the next legal term of the same everyday term was resolved.
C4_Witness ==
    /\ Done
    /\ \E i, j \in Entries("d2l") :
          /\ i < j /\ trace[i].kw = trace[j].kw
          /\ trace[i].outcome = "raise" /\ trace[j].outcome = "ok"
    /\ \E i \in Entries("l2a") :
          /\ trace[i].outcome = "raise"
          /\ i + 1 \in Entries("l2a") /\ trace[i + 1].outcome = "ok"

(***************************************************************************)
(* C5: whatever remote requests fail, run_pipeline goes on to return a     *)
(* bundle; the warnings list only grows by appending, and the returned     *)
(* warnings are in the order in which the failures and timeouts occurred.  *)
(***************************************************************************)

\* The warning an entry of the history leaves, if any.
RECURSIVE WarningsOf(_)
WarningsOf(i) ==
    IF i > Len(trace) THEN <<>>
    ELSE LET e == trace[i]
         IN  (CASE e.op = "timeout" -> <<[kind |-> "daily search timeout", about |-> e.term]>>
                [] e.op = "search" /\ e.outcome = "raise" ->
                      <<[kind |-> "daily search failed", about |-> e.term]>>
                [] e.op = "d2l" /\ e.outcome = "raise" ->
                      <<[kind |-> "daily->legal failed", about |-> e.id]>>
                [] e.op = "l2a" /\ e.outcome = "raise" ->
                      <<[kind |-> "legal->article failed", about |-> e.id]>>
                [] OTHER -> <<>>)
             \o WarningsOf(i + 1)

C5_WarningsAppendOnly ==
    /\ [](pc # "raised")
    /\ [][IsPrefix(warnings, warnings')]_vars
    /\ [](Done => warnings = WarningsOf(1))
    /\ [](Done => result.warnings = warnings)

\* A returned bundle with warnings of two kinds or more, a timeout among them.
C5_Witness ==
    /\ Done
    /\ Cardinality({result.warnings[i].kind : i \in 1..Len(result.warnings)}) >= 2
    /\ \E i \in 1..Len(result.warnings) : result.warnings[i].kind = "daily search timeout"

(***************************************************************************)
(* C6: when fetch_daily_terms raises on page p of a search term, no        *)
(* further page of that term is fetched, one warning is recorded, the      *)
(* items of pages 1..p-1 are kept and fanned out, and the remaining search *)
(* terms of the keyword and all later keywords are still searched.         *)
(***************************************************************************)
C6_FailedPageStopsTerm ==
    Done =>
        /\ \A i \in Entries("search") : trace[i].outcome = "raise" => NoLaterPage(i)
        /\ OneWarningPerFailure
        /\ FetchedIsFannedOut
        /\ AllTermsSearched

\* A returned bundle where page 2 of a search term failed, and a later search
\* term of that keyword and a later keyword were searched.
C6_Witness ==
    /\ Done
    /\ \E i, j, k \in Entries("search") :
          /\ trace[i].outcome = "raise" /\ trace[i].page > 1
          /\ i < j /\ trace[j].kw = trace[i].kw /\ trace[j].term # trace[i].term
          /\ j < k /\ trace[k].kw > trace[i].kw

(***************************************************************************)
(* C7 as stated: the search page fetches of one keyword, counted over the  *)
(* token and all its expansion terms, never exceed MAX_DAILY_PAGES.        *)
(***************************************************************************)
C7_PagesPerKeyword ==
    Done =>
        \A b \in 1..Len(tokens) :
            Cardinality({i \in Entries("search") : trace[i].kw = b}) <= MAX_DAILY_PAGES

(***************************************************************************)
(* C7 amended: the page budget is per search term.  The page fetches for   *)
(* one search term of a keyword never exceed MAX_DAILY_PAGES, so those of  *)
(* a keyword never exceed MAX_DAILY_PAGES times its number of search terms.*)
(***************************************************************************)
C7_PagesPerTerm ==
    Done =>
        /\ \A i \in Entries("search") :
              Cardinality({j \in Entries("search") :
                              trace[j].kw = trace[i].kw /\ trace[j].term = trace[i].term})
                  <= MAX_DAILY_PAGES
        /\ \A b \in 1..Len(tokens) :
              Cardinality({i \in Entries("search") : trace[i].kw = b})
                  <= MAX_DAILY_PAGES * Len(SearchTermsOf(b))

\* A keyword with more page fetches than MAX_DAILY_PAGES, one of whose search
\* terms used up its own MAX_DAILY_PAGES > 1 fetches.
C7_Witness ==
    /\ Done
    /\ MAX_DAILY_PAGES > 1
    /\ \E i \in Entries("search") :
          /\ Cardinality({j \in Entries("search") : trace[j].kw = trace[i].kw})
                > MAX_DAILY_PAGES
          /\ Cardinality({j \in Entries("search") :
                             trace[j].kw = trace[i].kw /\ trace[j].term = trace[i].term})
                = MAX_DAILY_PAGES

C9_ShortPageStopsTerm ==
    Done =>
        /\ \A i \in Entries("search") :
              trace[i].outcome = "ok" /\ trace[i].n < per_page => NoLaterPage(i)
        /\ FetchedIsFannedOut

\* A returned bundle after a short, non-empty first page with pages and time
\* left, one of whose items became a candidate.
C9_Witness ==
    /\ Done
    /\ \E i \in Entries("search") :
          /\ trace[i].outcome = "ok"
          /\ trace[i].n > 0 /\ trace[i].n < per_page
          /\ trace[i].page < MAX_DAILY_PAGES
          /\ \E x \in Range(FetchDailyTerms(remote, trace[i].term, trace[i].page,
                                             per_page).items) :
                x.id \in Range(Ids(RemoteOnly(result.tokens[trace[i].kw].daily_terms)))

(***************************************************************************)
(* C10 as stated: whenever paging for a search term stops on an exhausted  *)
(* budget, the time limit or the page limit with more results remaining, a *)
(* warning is appended, the items so far are kept and the pipeline goes on *)
(* with the next search term.                                              *)
(***************************************************************************)

\* The service holds more hits for the search term of a page-limit entry.
MoreRemained(i) ==
    Len(SearchResults(remote, trace[i].term).hits) > MAX_DAILY_PAGES * per_page

\* The indices of the warnings that do not report a failed request.
BudgetWarnings ==
    {i \in 1..Len(warnings) :
        warnings[i].kind \notin
            {"daily search failed", "daily->legal failed", "legal->article failed"}}

C10_BudgetStopWarns ==
    Done =>
        /\ Cardinality(BudgetWarnings)
              = Cardinality(Entries("timeout"))
                  + Cardinality({i \in Entries("pagelimit") : MoreRemained(i)})
        /\ FetchedIsFannedOut
        /\ AllTermsSearched

(***************************************************************************)
(* C10 amended: when paging stops because the time limit was reached, one  *)
(* timeout warning is appended; when it stops because the page limit was   *)
(* reached, no warning is appended, even with more results remaining; in   *)
(* both cases the items so far are kept and the pipeline goes on with the  *)
(* next search term.                                                       *)
(***************************************************************************)
C10_OnlyTimeoutWarns ==
    Done =>
        /\ Cardinality(BudgetWarnings) = Cardinality(Entries("timeout"))
        /\ \A i \in BudgetWarnings : warnings[i].kind = "daily search timeout"
        /\ Len(warnings) = Len(WarningsOf(1))
        /\ FetchedIsFannedOut
        /\ AllTermsSearched

\* A returned bundle of a run where one search term timed out and another
\* stopped at the page limit with more results remaining.
C10_Witness ==
    /\ Done
    /\ Entries("timeout") # {}
    /\ \E i \in Entries("pagelimit") : MoreRemained(i)

(***************************************************************************)
(* C11: run_pipeline on the empty text sends no request to any of the      *)
(* three remote operations, and the bundle it returns has an empty tokens  *)
(* list, an empty keywords list and an empty warnings list.                *)
(***************************************************************************)
RemoteCalls == Entries("search") \cup Entries("d2l") \cup Entries("l2a")

C11_EmptyTextEmptyBundle ==
    text = <<>> =>
        /\ RemoteCalls = {}
        /\ Done => /\ result.tokens = <<>>
                   /\ result.keywords = <<>>
                   /\ result.warnings = <<>>

\* run_pipeline has returned from a call with the empty text.
C11_Witness == Done /\ text = <<>> /\ result.keywords = tokens

(***************************************************************************)
(* Helpers of the properties of the library calls                          *)
(***************************************************************************)

\* The call of fn has returned.
Returned(fn) == call.fn = fn /\ ret.returned

\* The stopword set in force for a call of extract_keywords.
StopwordsOf(c) == DEFAULT_STOPWORDS \cup c.extra_stopwords

(***************************************************************************)
(* C12: for every text, top_k, extra_stopwords and either value of         *)
(* expand_synonyms, the list extract_keywords returns has at most top_k    *)
(* tokens.                                                                 *)
(***************************************************************************)
C12_AtMostTopK ==
    Returned("extract_keywords") => Len(ret.value) <= call.top_k

(***************************************************************************)
(* C13: no token extract_keywords returns is in the stopword set in force  *)
(* for the call (DEFAULT_STOPWORDS and the extra_stopwords of the caller), *)
(* be it a normalized token, a meaning unit derived from one or an         *)
(* expansion entry.                                                        *)
(***************************************************************************)
C13_NoStopwordReturned ==
    Returned("extract_keywords") =>
        \A i \in 1..Len(ret.value) : ret.value[i] \notin StopwordsOf(call)

(***************************************************************************)
(* C14: for every input and either value of expand_synonyms, the list      *)
(* extract_keywords returns holds no token twice, and every token in it    *)
(* has two characters or more.                                             *)
(***************************************************************************)
NoDuplicates(s) == \A i, j \in 1..Len(s) : i # j => s[i] # s[j]

C14_DistinctAndLong ==
    Returned("extract_keywords") =>
        /\ NoDuplicates(ret.value)
        /\ \A i \in 1..Len(ret.value) : Len(ret.value[i]) >= 2

\* A call with expansion has returned: the text holds a word that normalizes
\* to one character, and the seeds and the domain additions of the keywords
\* name the same entries more than once.
C14_Witness ==
    /\ Returned("extract_keywords")
    /\ call.text = JoinWords(<<S_doneul, S_bilryeotneunde>>)
    /\ call.expand_synonyms
    /\ ~call.okt
    /\ call.top_k = TOP_K_DEFAULT
    /\ ~NoDuplicates(ExpansionEntries(SubSeq(ret.value, 1, 3)))
    /\ Len(ret.value) > 3

(***************************************************************************)
(* C15: for every token, the list _derive_meaning_units returns never      *)
(* holds the token itself (a unit is a stem shorter than the token or a    *)
(* base form that differs from it) and never holds a unit twice.           *)
(***************************************************************************)
C15_UnitsNewAndDistinct ==
    Returned("_derive_meaning_units") =>
        /\ \A i \in 1..Len(ret.value) :
              /\ ret.value[i] # call.token
              /\ \/ Len(ret.value[i]) < Len(call.token)
                 \/ \E r \in 1..Len(VERB_BASE_RULES) :
                       ret.value[i] = VERB_BASE_RULES[r].base
                 \/ ret.value[i] = W_hada
        /\ NoDuplicates(ret.value)

\* _derive_meaning_units has returned a stem and a base form for a token.
C15_Witness ==
    /\ Returned("_derive_meaning_units")
    /\ call.token = <<"bil", "ryeot", "ne", "yo">>
    /\ ret.value = << <<"bil", "ryeot">>, <<"bil", "ri", "da">> >>

\* _derive_meaning_units has returned for a token that is itself a base form.
C15_WitnessBaseForm ==
    /\ Returned("_derive_meaning_units")
    /\ call.token \in {VERB_BASE_RULES[r].base : r \in 1..Len(VERB_BASE_RULES)}

(***************************************************************************)
(* C16: when a token that extract_keywords keeps matches, after its ending *)
(* is stripped, a rule of VERB_BASE_RULES, the base form of the rule is    *)
(* among the tokens returned, provided top_k holds all candidates; with    *)
(* expand_synonyms the synonym seeds of the base form that the stopwords   *)
(* let through are returned as well.  For the text "bilryeotneunde         *)
(* motbatateoyo" and the regex tokenizer the result holds "bilrida", and   *)
(* with expansion also "chayong", "chaemu" and "chaegwon".                 *)
(***************************************************************************)
W_bilrida == <<"bil", "ri", "da">>
T_borrowed == JoinWords(<<S_bilryeotneunde, S_motbatateoyo>>)

\* The tokenizer answer of a call of extract_keywords.
RawTokensOf(c) == Tokenize(c.text, IF c.okt THEN OktAnswer(c.text) ELSE NoOkt)

\* The normalized tokens the loop over raw_tokens keeps.
KeptTokens(c) ==
    {n \in {NormalizeToken(RawTokensOf(c)[i]) : i \in 1..Len(RawTokensOf(c))} :
        Len(n) >= 2 /\ n \notin StopwordsOf(c)}

\* The base forms the rules recover from the kept tokens.
RecoveredBaseForms(c) ==
    {VERB_BASE_RULES[r].base : r \in
        {q \in 1..Len(VERB_BASE_RULES) :
            \E n \in KeptTokens(c) : RuleMatches(VERB_BASE_RULES[q], Stem(n))}}

FromMatchedLegal(entry, snapshot, token) ==
    /\ entry.source = "cache:lstrmRlt"
    /\ entry.keyword = token
    /\ entry.legal_terms # <<>>
    /\ \A k \in 1..Len(entry.legal_terms) :
          LET link == entry.legal_terms[k]
          IN  /\ \E n \in 1..Len(snapshot.legal_terms) :
                    /\ snapshot.legal_terms[n].id = link.id
                    /\ snapshot.legal_terms[n].name = link.name
                    /\ Contains(link.name, token)
              /\ \E n \in 1..Len(snapshot.relations) :
                    /\ snapshot.relations[n].legal_id = link.id
                    /\ snapshot.relations[n].daily_name = entry.name
                    /\ entry.id \in {snapshot.relations[n].daily_id,
                                     snapshot.relations[n].daily_name}

C17_CacheCandidatesSurfaced ==
    /\ Returned("local_daily_candidates") =>
          /\ \A i \in 1..Len(ret.value) :
                FromMatchedLegal(ret.value[i], call.snapshot, call.token)
          /\ RemoteCalls = {}
    /\ (call = RunCall /\ Done) =>
          \A b \in 1..Len(result.tokens) :
             \A i \in 1..Len(LocalOf(b)) :
                /\ FromMatchedLegal(LocalOf(b)[i], cache, tokens[b])
                /\ InSeq(LocalOf(b)[i], result.tokens[b].daily_terms)

\* run_pipeline has returned for the text "boheom"; every remote request of
\* the run failed, and the everyday term of the cache is in the bundle.
C17_Witness ==
    /\ call = RunCall
    /\ Done
    /\ text = T_boheom
    /\ RemoteCalls # {}
    /\ \A i \in RemoteCalls : trace[i].outcome = "raise"
    /\ \E i \in 1..Len(result.tokens[1].daily_terms) :
          LET cand == result.tokens[1].daily_terms[i]
          IN  /\ cand.id = "c1"
              /\ cand.name = "boheomtan don"
              /\ IsCache(cand)
              /\ \E k \in 1..Len(cand.legal_terms) :
                    cand.legal_terms[k].name = L_boheomgeum

\* local_daily_candidates has returned candidates although the snapshot holds
\* relations of a legal term whose name does not contain the token.
C17_WitnessCall ==
    /\ Returned("local_daily_candidates")
    /\ ret.value # <<>>
    /\ \E n \in 1..Len(call.snapshot.relations) :
          call.snapshot.relations[n].legal_id = "L3"

(***************************************************************************)
(* C18: for any cache snapshot and token, every everyday term that         *)
(* local_daily_candidates returns carries one link for each of the matched *)
(* legal terms (the first max_legal matches) that has a relation to it: a  *)
(* link reached through a later legal term is added to the entry, never    *)
(* dropped, and it replaces no earlier link.                               *)
(***************************************************************************)
\* The matched legal terms of a call that a relation row ties to the entry.
RelatedLegalIds(c, entry) ==
    LET matched == Take(MatchedLegal(c.token, c.snapshot.legal_terms), c.max_legal)
    IN  {matched[m].id : m \in
            {n \in 1..Len(matched) :
                /\ matched[n].id # NoId
                /\ \E r \in 1..Len(c.snapshot.relations) :
                      LET rel == c.snapshot.relations[r]
                      IN  /\ rel.legal_id = matched[n].id
                          /\ rel.daily_name # ""
                          /\ entry.id = (IF rel.daily_id # NoId THEN rel.daily_id
                                         ELSE rel.daily_name)}}

C18_AllLinksAccumulated ==
    Returned("local_daily_candidates") =>
        \A i \in 1..Len(ret.value) :
           \A lid \in RelatedLegalIds(call, ret.value[i]) :
              Cardinality({k \in 1..Len(ret.value[i].legal_terms) :
                              ret.value[i].legal_terms[k].id = lid}) = 1

(***************************************************************************)
(* C19: an everyday-term record with a display name and no id is surfaced  *)
(* as a candidate all the same, its display name being its identity; this  *)
(* holds for the records of the local cache and for the items the remote   *)
(* search returns.                                                         *)
(***************************************************************************)
\* The candidates of bundle b hold one whose identity is this display name.
SurfacedByName(b, name) ==
    \E i \in 1..Len(result.tokens[b].daily_terms) :
        /\ result.tokens[b].daily_terms[i].id = name
        /\ result.tokens[b].daily_terms[i].name = name

\* The relation rows without id of the legal terms that match keyword b.
NamelessRows(b) ==
    {r \in 1..Len(cache.relations) :
        /\ cache.relations[r].daily_id = NoId
        /\ cache.relations[r].daily_name # ""
        /\ \E n \in 1..Len(cache.legal_terms) :
              /\ cache.legal_terms[n].id # NoId
              /\ cache.legal_terms[n].id = cache.relations[r].legal_id
              /\ Matches(tokens[b], cache.legal_terms[n].name)}

C19_NameIsFallbackIdentity ==
    (call = RunCall /\ Done) =>
        \A b \in 1..Len(result.tokens) :
            /\ \A r \in NamelessRows(b) :
                  SurfacedByName(b, cache.relations[r].daily_name)
            /\ \A i \in 1..Len(Offered(b)) :
                  (Offered(b)[i].id = NoId /\ Offered(b)[i].name # "")
                     => SurfacedByName(b, Offered(b)[i].name)

(***************************************************************************)
(* C20: two calls of run_pipeline, one after the other, with the same      *)
(* text, top_k, daily_per_keyword and legal_per_daily, against the same    *)
(* cache snapshot and a remote service that answers every request the same *)
(* way, return identical bundles: the same tokens, the same candidates in  *)
(* the same order, the same legal terms and articles, the same warnings.   *)
(***************************************************************************)
\* The second call has returned.
ReturnedAgain == earlier.called /\ Done

C20_SameBundleTwice == ReturnedAgain => result = earlier.bundle

\* A search of the call ran into the time budget.
TimedOut(bundle) ==
    \E i \in 1..Len(bundle.warnings) : bundle.warnings[i].kind = "daily search timeout"

\* C20, amended: the keywords of the two calls are identical, and the bundles
\* are identical when in neither call a search ran into the time budget.
C20_SameBundleUnlessTimeout ==
    ReturnedAgain =>
        /\ result.keywords = earlier.bundle.keywords
        /\ (~TimedOut(earlier.bundle) /\ ~TimedOut(result)) => result = earlier.bundle

\* Both calls have returned the same bundle, with candidates and with the
\* warning of a failed request, and no search ran into the time budget.
C20_Witness ==
    /\ ReturnedAgain
    /\ ~TimedOut(earlier.bundle)
    /\ ~TimedOut(result)
    /\ result = earlier.bundle
    /\ result.warnings # <<>>
    /\ \E b \in 1..Len(result.tokens) : Len(result.tokens[b].daily_terms) >= 2

(***************************************************************************)
(* C21: for every remote-sourced everyday term in the bundle, its          *)
(* legal_terms list is the list returned by the remote daily-to-legal      *)
(* call, in the same order, truncated to its first legal_per_daily         *)
(* entries.                                                                *)
(***************************************************************************)
\* The fields of a legal term as fetch_daily_to_legal returns them.
Link(legal) ==
    [id |-> legal.id, name |-> legal.name, relation_code |-> legal.relation_code,
     note |-> legal.note]

Links(cand) == [k \in 1..Len(cand.legal_terms) |-> Link(cand.legal_terms[k])]

\* The first n entries of a list.
FirstN(s, n) == [k \in 1..(IF Len(s) < n THEN Len(s) ELSE n) |-> s[k]]

\* The entries of a list that have an id, in order.
RECURSIVE WithId(_)
WithId(s) ==
    IF s = <<>> THEN <<>>
    ELSE IF Head(s).id = NoId THEN WithId(Tail(s))
    ELSE <<Head(s)>> \o WithId(Tail(s))

\* The daily-to-legal request of keyword b for an id was answered, or it raised.
Answered(b, id) ==
    \E i \in Entries("d2l") :
        trace[i].kw = b /\ trace[i].id = id /\ trace[i].outcome = "ok"

Refused(b, id) ==
    \E i \in Entries("d2l") :
        trace[i].kw = b /\ trace[i].id = id /\ trace[i].outcome = "raise"

\* The remote candidates of keyword entry b.
RemoteCandidates(b) == Range(RemoteOnly(result.tokens[b].daily_terms))

C21_LinksAreTruncatedAnswer ==
    Done =>
        \A b \in 1..Len(result.tokens) :
            \A cand \in RemoteCandidates(b) :
                Answered(b, cand.id) =>
                    Links(cand) = FirstN(FetchDailyToLegal(cand.id), legal_per_daily)

\* C21, amended: the legal_terms list holds, in the order of the answer, the
\* entries with an id among the first legal_per_daily entries of the answer;
\* it is empty when the request raised.
C21_LinksAreIdentifiedTruncatedAnswer ==
    Done =>
        \A b \in 1..Len(result.tokens) :
            \A cand \in RemoteCandidates(b) :
                /\ Answered(b, cand.id) \/ Refused(b, cand.id)
                /\ Answered(b, cand.id) =>
                      Links(cand)
                          = WithId(FirstN(FetchDailyToLegal(cand.id), legal_per_daily))
                /\ Refused(b, cand.id) => Links(cand) = <<>>

\* A candidate whose answer was cut to two links, and one whose answer lost an
\* entry without id.
C21_Witness ==
    /\ Done
    /\ \E b \in 1..Len(result.tokens) :
          \E cand \in RemoteCandidates(b) :
              /\ Answered(b, cand.id)
              /\ Len(FetchDailyToLegal(cand.id)) > legal_per_daily
              /\ Len(cand.legal_terms) = legal_per_daily
              /\ legal_per_daily >= 2
    /\ \E b \in 1..Len(result.tokens) :
          \E cand \in RemoteCandidates(b) :
              /\ Answered(b, cand.id)
              /\ Len(cand.legal_terms) >= 1
              /\ Len(cand.legal_terms) < Len(FirstN(FetchDailyToLegal(cand.id), legal_per_daily))

(***************************************************************************)
(* C22: extract_keywords ranks candidates by how often they occur in the   *)
(* text: if candidate a occurs strictly more times than candidate b among  *)
(* the normalized tokens and derived units of the text, a precedes b in    *)
(* the output and is selected in preference to b when top_k cuts the list; *)
(* candidates with equal counts keep first-seen order.                     *)
(***************************************************************************)
\* The normalized tokens the loop over raw_tokens keeps and their derived
\* units, every occurrence counted.
RECURSIVE Occurrences(_, _)
Occurrences(raw_tokens, stopwords) ==
    IF raw_tokens = <<>> THEN <<>>
    ELSE LET norm == NormalizeToken(Head(raw_tokens))
         IN  (IF Len(norm) < 2 \/ norm \in stopwords THEN <<>>
              ELSE <<norm>> \o DeriveMeaningUnits(norm))
             \o Occurrences(Tail(raw_tokens), stopwords)

\* The position of a word in a list, 0 when it is not there.
Position(word, s) ==
    IF InSeq(word, s) THEN CHOOSE i \in 1..Len(s) : s[i] = word /\ \A j \in 1..(i - 1) : s[j] # word
    ELSE 0

C22_RankedByFrequency ==
    (Returned("extract_keywords") /\ ~call.expand_synonyms) =>
        LET pool == Occurrences(RawTokensOf(call), StopwordsOf(call))
        IN  \A a, b \in Range(pool) :
                (Count(pool, a) > Count(pool, b) /\ InSeq(b, ret.value))
                    => /\ InSeq(a, ret.value)
                       /\ Position(a, ret.value) < Position(b, ret.value)

(***************************************************************************)
(* C23: in _derive_meaning_units the ending stripped from a token is the   *)
(* longest entry of ENDINGS_TO_STRIP that is a suffix of the token and     *)
(* leaves a remainder of length at least 2; at most one ending is stripped *)
(* and the lemma-recovery rules are applied to the stripped remainder.     *)
(***************************************************************************)
\* The endings that end the token and leave two characters or more.
Strippable(token) ==
    {e \in Range(ENDINGS_TO_STRIP) : EndsWith(token, e) /\ Len(token) - Len(e) >= 2}

LongestStrippable(token) ==
    CHOOSE e \in Strippable(token) : \A f \in Strippable(token) : Len(f) <= Len(e)

\* The token without its last n characters.
CutOff(token, n) == [k \in 1..(Len(token) - n) |-> token[k]]

C23_LongestEndingStripped ==
    (Returned("_derive_meaning_units") /\ Strippable(call.token) # {}) =>
        /\ ret.value # <<>>
        /\ ret.value[1] = CutOff(call.token, Len(LongestStrippable(call.token)))

(***************************************************************************)
(* C24: for every text, top_k and stopword set, extract_keywords with      *)
(* expand_synonyms=True returns the list it returns with                   *)
(* expand_synonyms=False as an unchanged prefix, followed by the expansion *)
(* entries grouped in the order of their triggering base keyword (seed     *)
(* synonyms, then domain-rule additions in rule order), each expansion     *)
(* entry being absent from the stopword set and from everything already in *)
(* the list.                                                               *)
(***************************************************************************)
\* What the call returns when expand_synonyms is False.
Unexpanded(c) ==
    ExtractKeywords(c.text, c.top_k, c.extra_stopwords, FALSE,
                    IF c.okt THEN OktAnswer(c.text) ELSE NoOkt)

\* The part of a list behind its first n entries.
Behind(s, n) == [k \in 1..(Len(s) - n) |-> s[n + k]]

C24_ExpansionFollowsBase ==
    (Returned("extract_keywords") /\ call.expand_synonyms) =>
        LET base == Unexpanded(call)
        IN  /\ IsPrefix(base, ret.value)
            /\ Behind(ret.value, Len(base))
                  = FirstOccurrences(ExpansionEntries(base),
                                     StopwordsOf(call) \cup Range(base))

\* A call with expansion has returned: two base keywords trigger entries,
\* some entries are named twice, one is a stopword, and the list has grown.
C24_Witness ==
    /\ Returned("extract_keywords")
    /\ call.expand_synonyms
    /\ LET base == Unexpanded(call)
           entries == ExpansionEntries(base)
       IN  /\ Len(ret.value) > Len(base)
           /\ \E i, j \in 1..Len(base) :
                 /\ i # j
                 /\ ExpansionEntries(<<base[i]>>) # <<>>
                 /\ ExpansionEntries(<<base[j]>>) # <<>>
           /\ ~NoDuplicates(entries)
           /\ \E k \in 1..Len(entries) : entries[k] \in StopwordsOf(call)

(***************************************************************************)
(* C25: the summary of a legal term is computed from the first article     *)
(* content that is non-empty after trimming: it is the part of that        *)
(* content before the first (leftmost) occurrence of any sentence-ending   *)
(* delimiter among ". ", the full-width period, the ellipsis, "!" and "?", *)
(* and if that part is longer than 160 characters it is cut to 159         *)
(* characters plus the ellipsis; the summary is never longer than 160      *)
(* characters, and it is empty only when no article has non-blank content. *)
(***************************************************************************)
\* The article contents of a call, newlines turned into blanks and trimmed.
Trimmed(contents) ==
    [i \in 1..Len(contents) |-> Strip(ReplaceNewlines(contents[i]))]

\* The first content that is not empty after trimming, <<>> when there is none.
FirstNonBlank(contents) ==
    LET some == {i \in 1..Len(contents) : Trimmed(contents)[i] # <<>>}
    IN  IF some = {} THEN <<>>
        ELSE Trimmed(contents)[CHOOSE i \in some : \A j \in some : i <= j]

\* The offsets of a content at which one of the delimiters stands.
DelimiterAt(content) ==
    {i \in 0..(Len(content) - 1) :
        \E d \in Range(SPLIT_CHARS) :
            /\ i + Len(d) <= Len(content)
            /\ \A j \in 1..Len(d) : content[i + j] = d[j]}

\* The part of a content before the leftmost delimiter.
FirstSentence(content) ==
    IF DelimiterAt(content) = {} THEN content
    ELSE LET at == CHOOSE i \in DelimiterAt(content) : \A k \in DelimiterAt(content) : i <= k
         IN  [k \in 1..at |-> content[k]]

C25_SummaryIsFirstSentence ==
    Returned("_pick_summary") =>
        LET content == FirstNonBlank(call.contents)
            sentence == FirstSentence(content)
        IN  /\ ret.value = IF Len(sentence) > SUMMARY_LIMIT
                             THEN [k \in 1..SUMMARY_LIMIT |->
                                      IF k < SUMMARY_LIMIT THEN sentence[k] ELSE "ell"]
                             ELSE sentence
            /\ Len(ret.value) <= SUMMARY_LIMIT
            /\ ret.value = <<>> => content = <<>>

(***************************************************************************)
(* C26: the daily_per_keyword request parameter (documented as the number  *)
(* of everyday terms looked up per keyword) bounds the remote results of a *)
(* keyword: in every keyword entry of the bundle, the number of            *)
(* remote-sourced everyday-term candidates is at most daily_per_keyword.   *)
(***************************************************************************)
C26_RemoteWithinDailyPerKeyword ==
    Done =>
        \A b \in 1..Len(result.tokens) :
            Len(RemoteOnly(result.tokens[b].daily_terms)) <= daily_per_keyword

(***************************************************************************)
(* C27: within the resolution of one keyword, fetch_daily_to_legal is      *)
(* called at most once per everyday-term id, however many search terms and *)
(* pages return that id, and it is never called for an id that the local   *)
(* cache already supplied for that keyword.                                *)
(***************************************************************************)
\* The daily-to-legal requests of keyword b for an id.
Lookups(b, id) == {i \in Entries("d2l") : trace[i].kw = b /\ trace[i].id = id}

C27_OneLookupPerId ==
    Done =>
        \A i \in Entries("d2l") :
            /\ Cardinality(Lookups(trace[i].kw, trace[i].id)) = 1
            /\ trace[i].id \notin Range(Ids(LocalOf(trace[i].kw)))

\* The searches of a keyword returned an id on two pages or for two search
\* terms and it was looked up once; the searches of a keyword returned an id
\* of its cache candidates and other ids, which were looked up.
C27_Witness ==
    /\ Done
    /\ \E i, j \in Entries("search") :
          /\ i # j
          /\ trace[i].kw = trace[j].kw
          /\ trace[i].outcome = "ok" /\ trace[j].outcome = "ok"
          /\ \E x \in Range(Ids(FetchDailyTerms(remote, trace[i].term, trace[i].page,
                                                 per_page).items)) :
                /\ x \in Range(Ids(FetchDailyTerms(remote, trace[j].term, trace[j].page,
                                                   per_page).items))
                /\ Cardinality(Lookups(trace[i].kw, x)) = 1
    /\ \E b \in 1..Len(result.tokens) :
          /\ \E x \in Range(Ids(Offered(b))) :
                x \in Range(Ids(LocalOf(b))) /\ Lookups(b, x) = {}
          /\ \E x \in Range(Ids(Offered(b))) : Lookups(b, x) # {}

(***************************************************************************)
(* C28: relation collection is resumable without loss or duplication: if a *)
(* collect_relations run in append mode is interrupted at any point        *)
(* (including after only some relation rows of a legal-term id were        *)
(* written) and the script is re-run with --resume, the final              *)
(* lstrm_rlt.jsonl holds the same set of relation rows as one              *)
(* uninterrupted run, with no row written twice and no legal-term id whose *)
(* relations were fetched successfully left incomplete.                    *)
(***************************************************************************)
\* The rows of the items of an answer that have an id or a name.
RECURSIVE RowsOf(_, _)
RowsOf(m, answer) ==
    IF answer = <<>> THEN <<>>
    ELSE (IF Head(answer).daily_id = "" /\ Head(answer).daily_name = "" THEN <<>>
          ELSE <<RelationRow(m, Head(answer))>>)
         \o RowsOf(m, Tail(answer))

\* The rows one uninterrupted run without failed requests writes: those of
\* every MST, at its first visit.
RECURSIVE UninterruptedFrom(_, _)
UninterruptedFrom(k, processed) ==
    IF k > Len(Msts(LstrmFile)) THEN <<>>
    ELSE LET m == Msts(LstrmFile)[k]
         IN  IF m.mst \in processed THEN UninterruptedFrom(k + 1, processed)
             ELSE RowsOf(m, FetchLstrmRlt(m.mst))
                  \o UninterruptedFrom(k + 1,
                                       IF FetchLstrmRlt(m.mst) = <<>> THEN processed
                                       ELSE processed \cup {m.mst})

UninterruptedRows == UninterruptedFrom(1, {})

\* The command has finished after at least one interrupted run.
Resumed == cpc = "finished" /\ interrupts > 0

C28_ResumeLosesNothing ==
    Resumed =>
        /\ NoDuplicates(rlt_file)
        /\ \A k \in 1..Len(Msts(LstrmFile)) :
              Msts(LstrmFile)[k].mst \in answered
                  => \A row \in Range(RowsOf(Msts(LstrmFile)[k],
                                             FetchLstrmRlt(Msts(LstrmFile)[k].mst))) :
                        InSeq(row, rlt_file)
        /\ faults = 0 => Range(rlt_file) = Range(UninterruptedRows)

====
